---- MODULE Spec2Model ----
(***************************************************************************)
(* State-machine model of the CareerCompass client components:             *)
(*   AptitudeQuiz               (src/src/components/AptitudeQuiz.tsx)       *)
(*   CollegesMapSection         (src/src/components/AptitudeQuiz.tsx:594+)  *)
(*   AptitudeQuizSection        (src/src/components/AptitudeQuizSection.tsx)*)
(*   ScholarshipsTrackerSection (.../ScholarshipsTrackerSection.tsx)        *)
(*   ChatbotInterface           (src/src/components/CollegeMapper.tsx:1113+)*)
(*                                                                         *)
(* Every component is a React function component: its state is the set of  *)
(* useState cells, an action is one event handler (or one resolution of a  *)
(* request the component started) together with the state updates it       *)
(* batches.  A passive effect whose dependencies changed runs after the    *)
(* render that follows the handler and before the next event; it is the    *)
(* step that is forced next (no other action is enabled while it is        *)
(* pending).                                                               *)
(***************************************************************************)
EXTENDS Integers, Sequences, FiniteSets, TLC

\* ------------------------------------------------------------------------
\* Bounds
\* ------------------------------------------------------------------------
NumQuestions == 2
MaxDuration == 2
MaxRequests == 4
MaxNow == 2
MaxUid == 5
MaxChunks == 2
MaxAnswers == 3

\* ------------------------------------------------------------------------
\* Shared vocabulary
\* ------------------------------------------------------------------------
None == "none"

\* null / a present value, for cells that hold a structured value or nothing
Null == <<>>
Some(x) == <<x>>
ValueOf(o) == o[1]

\* questions[i].id for the 0-based cursor i; ids are 1..NumQuestions
QuestionIds == 1..NumQuestions
QuestionId(i) == i + 1
total == NumQuestions

\* a key a caller may pass in initialAnswers that is no question's id
StrayKey == 0
AnswerKeys == QuestionIds \cup {StrayKey}

\* option values (non-empty strings)
OptionValues == {"science", "art", "business"}

NoAnswers == [k \in AnswerKeys |-> None]

\* !!answers[q.id]
Answered(a, qid) == a[qid] # None

\* the keys present in an AnswerMap
KeysOf(a) == {k \in AnswerKeys : a[k] # None}

VARIABLES
  mounted,            \* which component the behaviour is about
  \* ---- AptitudeQuiz ----
  durationSec, allowSkip, autoSubmitOnTime,   \* props
  phase, index, answers, remaining, isMounted, results,
  inflight,           \* answers handed to the scoring call that is awaited
  effectPending,      \* the timer effect has to run (a dependency changed)
  qOp,                \* the handler or callback that ran last
  phaseBefore,        \* phase at the start of the last step
  \* ---- AptitudeQuizSection ----
  sec_current, sec_answers, sec_submitting, sec_result, sec_error,
  sec_payload,        \* request body awaited from /api/quiz
  sec_op,
  \* ---- CollegesMapSection ----
  center, radiusKm, course, ranking, isFetching, map_error, colleges,
  requests,           \* issued colleges requests, in order of issue
  superseded,         \* a request was issued while an earlier one was outstanding
  map_op,
  \* ---- ScholarshipsTrackerSection ----
  scholarships, loading, trk_error, savedIds, tracked,
  now,                \* the wall clock, in hours
  storage,            \* localStorage entries under LOCAL_KEYS
  everSaved,          \* ids that have been in savedIds at some point
  firstSave,          \* the id the last step saved for the first time, if any
  trk_op,             \* the handler or callback that ran last
  query, category, eligibility, amountOrder, deadlineWindow,   \* filter controls
  filtered,           \* the memoized list of the Discover tab
  filteredAt,         \* the clock reading (new Date()) the memo last took
  \* ---- ChatbotInterface ----
  conversations, activeId, input, chat_loading, typing,
  chat_storage,       \* localStorage entries under STORAGE_KEYS
  chat_req,           \* the sendMessage call that is awaiting its response
  nextUid,            \* the next value of uid()
  chat_pending,       \* effects of the last commit that have not run yet
  chat_op,            \* the handler or callback that ran last
  chat_call,          \* what the last sendMessage / reload started from
  \* ---- mockEvaluate ----
  ev_answers,         \* the AnswerMap handed to mockEvaluate
  ev_result,          \* what the call resolved with, if it has
  \* ---- CareerRecommendations ----
  rec_given,          \* the items array as the caller built it
  rec_items,          \* the content of that same array now
  rec_rendered,       \* the component has rendered
  rec_sort, rec_minFit, rec_streams,   \* sort, minFit, selectedStreams
  rec_filtered,       \* the memoized list
  rec_op              \* the handler that ran last

quizVars == <<durationSec, allowSkip, autoSubmitOnTime, phase, index, answers,
              remaining, isMounted, results, inflight, effectPending, qOp,
              phaseBefore>>
secVars == <<sec_current, sec_answers, sec_submitting, sec_result, sec_error,
             sec_payload, sec_op>>
mapVars == <<center, radiusKm, course, ranking, isFetching, map_error, colleges,
             requests, superseded, map_op>>
trkVars == <<scholarships, loading, trk_error, savedIds, tracked, now, storage,
             everSaved, firstSave, trk_op, query, category, eligibility,
             amountOrder, deadlineWindow, filtered, filteredAt>>
chatVars == <<conversations, activeId, input, chat_loading, typing, chat_storage,
              chat_req, nextUid, chat_pending, chat_op, chat_call>>
evalVars == <<ev_answers, ev_result>>
recVars == <<rec_given, rec_items, rec_rendered, rec_sort, rec_minFit, rec_streams,
             rec_filtered, rec_op>>
vars == <<mounted, quizVars, secVars, mapVars, trkVars, chatVars, evalVars, recVars>>

\* ========================================================================
\* AptitudeQuiz
\* ========================================================================

\* initialAnswers ?? {}  -- maps a caller may supply
InitialAnswersChoices ==
  { NoAnswers,
    [NoAnswers EXCEPT ![1] = "science"],
    [NoAnswers EXCEPT ![StrayKey] = "art"] }

\* canGoNext without the answer check
canGoNext_Always == TRUE

\* const canGoNext = allowSkip || !!answers[current?.id]
canGoNext == allowSkip \/ Answered(answers, QuestionId(index))

\* const allAnswered = questions.every((q) => !!answers[q.id])
allAnswered == \A q \in QuestionIds : Answered(answers, q)

\* mockEvaluate / onSubmit: the result computed from the submitted answers
ResultOf(a) == [scoredFrom |-> a]

\* useState initialisers of AptitudeQuiz, for the given props
QuizConstructed(d, skip, auto, init) ==
  /\ durationSec = d /\ allowSkip = skip /\ autoSubmitOnTime = auto
  /\ phase = "quiz" /\ index = 0 /\ answers = init /\ remaining = d
  /\ isMounted = FALSE /\ results = Null /\ inflight = Null
  /\ effectPending = FALSE /\ qOp = "init" /\ phaseBefore = "quiz"

InitQuiz ==
  \E d \in 0..MaxDuration, skip \in BOOLEAN, auto \in BOOLEAN,
     init \in InitialAnswersChoices :
       QuizConstructed(d, skip, auto, init)

IdleQuiz == QuizConstructed(0, TRUE, TRUE, NoAnswers)

\* the timer effect re-runs when one of its dependencies (phase, remaining)
\* changed in the render
DepsChanged(newPhase, newRemaining) == newPhase # phase \/ newRemaining # remaining

QuizFrame == UNCHANGED <<mounted, durationSec, allowSkip, autoSubmitOnTime,
                         secVars, mapVars, trkVars, chatVars, evalVars, recVars>>

\* an event handler can run: the component is rendered and no effect is due
QuizReady == mounted = "AptitudeQuiz" /\ isMounted /\ ~effectPending

\* useEffect(() => { setIsMounted(true) }, [])
MountEffect ==
  /\ mounted = "AptitudeQuiz" /\ ~isMounted
  /\ isMounted' = TRUE
  /\ effectPending' = TRUE
  /\ qOp' = "mount" /\ phaseBefore' = phase
  /\ UNCHANGED <<phase, index, answers, remaining, results, inflight>>
  /\ QuizFrame

\* handleSubmit up to its await: setPhase("submitting"); onSubmit(answers)
StartSubmit(op) ==
  /\ phase' = "submitting"
  /\ inflight' = Some(answers)
  /\ qOp' = op /\ phaseBefore' = phase
  /\ effectPending' = (phase # "submitting")
  /\ UNCHANGED <<index, answers, remaining, isMounted, results>>
  /\ QuizFrame

\* the body of the timer effect when remaining <= 0 and autoSubmitOnTime is off
ForceReview ==
  /\ phase' = "review"
  /\ qOp' = "timeUpReview" /\ phaseBefore' = phase
  /\ effectPending' = (phase # "review")
  /\ UNCHANGED <<index, answers, remaining, isMounted, results, inflight>>
  /\ QuizFrame

\* the time-up branch without the autoSubmitOnTime policy
TimeUp_ReviewOnly == ForceReview

\* the time-up branch of the timer effect (remaining <= 0)
TimeUp == IF autoSubmitOnTime THEN StartSubmit("timeUpSubmit") ELSE ForceReview

\* Timer effect, lines 80-95
TimerEffect ==
  /\ mounted = "AptitudeQuiz" /\ effectPending
  /\ IF ~isMounted \/ phase = "result" \/ phase = "submitting"
       THEN /\ effectPending' = FALSE
            /\ qOp' = "effectIdle" /\ phaseBefore' = phase
            /\ UNCHANGED <<phase, index, answers, remaining, isMounted, results,
                           inflight>>
            /\ QuizFrame
       ELSE IF remaining <= 0
         THEN TimeUp
         ELSE \* setInterval installed
              /\ effectPending' = FALSE
              /\ qOp' = "effectArm" /\ phaseBefore' = phase
              /\ UNCHANGED <<phase, index, answers, remaining, isMounted, results,
                             inflight>>
              /\ QuizFrame

\* an interval that is not cleared when the phase leaves quiz/review
Tick_AnyPhase ==
  /\ QuizReady
  /\ remaining > 0
  /\ remaining' = (IF remaining > 0 THEN remaining - 1 ELSE 0)
  /\ effectPending' = (remaining' # remaining)
  /\ qOp' = "tick" /\ phaseBefore' = phase
  /\ UNCHANGED <<phase, index, answers, isMounted, results, inflight>>
  /\ QuizFrame

\* the interval callback: setRemaining((r) => (r > 0 ? r - 1 : 0))
Tick ==
  /\ QuizReady
  /\ phase \in {"quiz", "review"} /\ remaining > 0
  /\ remaining' = (IF remaining > 0 THEN remaining - 1 ELSE 0)
  /\ effectPending' = (remaining' # remaining)
  /\ qOp' = "tick" /\ phaseBefore' = phase
  /\ UNCHANGED <<phase, index, answers, isMounted, results, inflight>>
  /\ QuizFrame

\* selectOption(current.id, opt.value) -- option buttons of the quiz phase
SelectOption(val) ==
  /\ QuizReady /\ phase = "quiz"
  /\ answers' = [answers EXCEPT ![QuestionId(index)] = val]
  /\ qOp' = "select" /\ phaseBefore' = phase
  /\ UNCHANGED <<phase, index, remaining, isMounted, results, inflight,
                 effectPending>>
  /\ QuizFrame

\* goNext: Next button (quiz phase) or ArrowRight
\* goNext without the upper bound
GoNextTarget_Unbounded == IF canGoNext THEN index + 1 ELSE index

GoNextTarget == IF index < total - 1 /\ canGoNext THEN index + 1 ELSE index

GoNext ==
  /\ QuizReady /\ phase # "submitting"
  /\ index' = GoNextTarget
  /\ qOp' = "goNext" /\ phaseBefore' = phase
  /\ UNCHANGED <<phase, answers, remaining, isMounted, results, inflight,
                 effectPending>>
  /\ QuizFrame

\* goPrev: Prev button (quiz phase) or ArrowLeft
GoPrevTarget == IF index > 0 THEN index - 1 ELSE index

GoPrev ==
  /\ QuizReady /\ phase # "submitting"
  /\ index' = GoPrevTarget
  /\ qOp' = "goPrev" /\ phaseBefore' = phase
  /\ UNCHANGED <<phase, answers, remaining, isMounted, results, inflight,
                 effectPending>>
  /\ QuizFrame

\* jumpTo(i): ReviewStrip (quiz phase) and ReviewPanel (review phase) buttons,
\* one per question
JumpTo(i) ==
  /\ QuizReady /\ phase \in {"quiz", "review"}
  /\ index' = i
  /\ phase' = "quiz"
  /\ effectPending' = DepsChanged("quiz", remaining)
  /\ qOp' = "jumpTo" /\ phaseBefore' = phase
  /\ UNCHANGED <<answers, remaining, isMounted, results, inflight>>
  /\ QuizFrame

\* handleReview ("Review answers"), and the "Review & Submit" button shown on
\* the last question, disabled={!allowSkip && !allAnswered}
HandleReview ==
  /\ QuizReady /\ phase = "quiz"
  /\ phase' = "review"
  /\ effectPending' = TRUE
  /\ qOp' = "handleReview" /\ phaseBefore' = phase
  /\ UNCHANGED <<index, answers, remaining, isMounted, results, inflight>>
  /\ QuizFrame

ReviewAndSubmit ==
  /\ QuizReady /\ phase = "quiz"
  /\ index = total - 1
  /\ allowSkip \/ allAnswered
  /\ phase' = "review"
  /\ effectPending' = TRUE
  /\ qOp' = "reviewAndSubmit" /\ phaseBefore' = phase
  /\ UNCHANGED <<index, answers, remaining, isMounted, results, inflight>>
  /\ QuizFrame

\* ReviewPanel onBack={() => setPhase("quiz")}
OnBack ==
  /\ QuizReady /\ phase = "review"
  /\ phase' = "quiz"
  /\ effectPending' = TRUE
  /\ qOp' = "onBack" /\ phaseBefore' = phase
  /\ UNCHANGED <<index, answers, remaining, isMounted, results, inflight>>
  /\ QuizFrame

\* ReviewPanel "Submit and view results",
\* disabled={!allowSubmitWhenUnanswered && !allAnswered}
HandleSubmit ==
  /\ QuizReady /\ phase = "review"
  /\ allowSkip \/ allAnswered
  /\ StartSubmit("handleSubmit")

\* a catch block that returns to the questions
PhaseOnFailure_Quiz == "quiz"

\* the phase handleSubmit's catch block sets
PhaseOnFailure == "review"

\* handleSubmit after the await resolved: setResults(res); setPhase("result")
SubmitResolved ==
  /\ QuizReady /\ inflight # Null
  /\ results' = Some(ResultOf(ValueOf(inflight)))
  /\ phase' = "result"
  /\ inflight' = Null
  /\ effectPending' = DepsChanged("result", remaining)
  /\ qOp' = "submitResolved" /\ phaseBefore' = phase
  /\ UNCHANGED <<index, answers, remaining, isMounted>>
  /\ QuizFrame

\* a catch block that also drops the answers
SubmitRejected_Discard ==
  /\ QuizReady /\ inflight # Null
  /\ phase' = PhaseOnFailure
  /\ answers' = NoAnswers
  /\ inflight' = Null
  /\ effectPending' = DepsChanged(PhaseOnFailure, remaining)
  /\ qOp' = "submitRejected" /\ phaseBefore' = phase
  /\ UNCHANGED <<index, remaining, isMounted, results>>
  /\ QuizFrame

\* handleSubmit's catch: setPhase("review")
SubmitRejected ==
  /\ QuizReady /\ inflight # Null
  /\ phase' = PhaseOnFailure
  /\ inflight' = Null
  /\ effectPending' = DepsChanged(PhaseOnFailure, remaining)
  /\ qOp' = "submitRejected" /\ phaseBefore' = phase
  /\ UNCHANGED <<index, answers, remaining, isMounted, results>>
  /\ QuizFrame

\* a retake that keeps the answers
RetakeAnswers_Kept == answers

\* the values handleRetake stores
RetakeAnswers == NoAnswers
RetakeRemaining == durationSec

\* handleRetake: ResultsPanel (phase === "result" && results)
HandleRetake ==
  /\ QuizReady /\ phase = "result" /\ results # Null
  /\ answers' = RetakeAnswers
  /\ index' = 0
  /\ results' = Null
  /\ remaining' = RetakeRemaining
  /\ phase' = "quiz"
  /\ effectPending' = DepsChanged("quiz", RetakeRemaining)
  /\ qOp' = "handleRetake" /\ phaseBefore' = phase
  /\ UNCHANGED <<isMounted, inflight>>
  /\ QuizFrame

NextQuiz ==
  \/ MountEffect
  \/ TimerEffect
  \/ Tick
  \/ \E val \in OptionValues : SelectOption(val)
  \/ GoNext
  \/ GoPrev
  \/ \E i \in 0..(total - 1) : JumpTo(i)
  \/ HandleReview
  \/ ReviewAndSubmit
  \/ OnBack
  \/ HandleSubmit
  \/ SubmitResolved
  \/ SubmitRejected
  \/ HandleRetake

\* ========================================================================
\* AptitudeQuizSection
\* ========================================================================

\* answers of the section: one cell per question id
SecNoAnswers == [k \in QuestionIds |-> None]

\* const selected = answers[currentQuestion?.id || ""]
selected == sec_answers[QuestionId(sec_current)]

\* const isLast = current === total - 1
isLast == sec_current = total - 1

InitSection ==
  /\ sec_current = 0 /\ sec_answers = SecNoAnswers /\ sec_submitting = FALSE
  /\ sec_result = Null /\ sec_error = None /\ sec_payload = Null
  /\ sec_op = "init"

SecFrame == UNCHANGED <<mounted, quizVars, mapVars, trkVars, chatVars, evalVars, recVars>>

\* the question card is rendered ({!result ? ... })
SecQuizView == mounted = "AptitudeQuizSection" /\ sec_result = Null

\* handleSelect(value): RadioGroup onValueChange
SecHandleSelect(value) ==
  /\ SecQuizView
  /\ sec_answers' = [sec_answers EXCEPT ![QuestionId(sec_current)] = value]
  /\ sec_error' = None
  /\ sec_op' = "handleSelect"
  /\ UNCHANGED <<sec_current, sec_submitting, sec_result, sec_payload>>
  /\ SecFrame

\* Math.max(0, i - 1)
PrevCursor(i) == IF i - 1 > 0 THEN i - 1 ELSE 0

\* Math.min(total - 1, i + 1)
NextCursor(i) == IF i + 1 < total - 1 THEN i + 1 ELSE total - 1

\* handlePrev: Back button, disabled={current === 0 || submitting}
SecHandlePrev ==
  /\ SecQuizView /\ sec_current # 0 /\ ~sec_submitting
  /\ sec_error' = None
  /\ sec_current' = PrevCursor(sec_current)
  /\ sec_op' = "handlePrev"
  /\ UNCHANGED <<sec_answers, sec_submitting, sec_result, sec_payload>>
  /\ SecFrame

\* a handleNext that moves on whether or not an option is selected
SecHandleNext_Unguarded ==
  /\ SecQuizView /\ ~isLast /\ ~sec_submitting
  /\ sec_error' = None
  /\ sec_current' = NextCursor(sec_current)
  /\ sec_op' = "handleNext"
  /\ UNCHANGED <<sec_answers, sec_submitting, sec_result, sec_payload>>
  /\ SecFrame

\* handleNext: Next button (shown when !isLast), disabled={submitting}
SecHandleNext ==
  /\ SecQuizView /\ ~isLast /\ ~sec_submitting
  /\ IF selected = None
       THEN /\ sec_error' = "Please select an option to continue."
            /\ UNCHANGED sec_current
       ELSE /\ sec_error' = None
            /\ sec_current' = NextCursor(sec_current)
  /\ sec_op' = "handleNext"
  /\ UNCHANGED <<sec_answers, sec_submitting, sec_result, sec_payload>>
  /\ SecFrame

\* the cursor resetQuiz stores
ResetCursor == 0

\* resetQuiz: Reset button (disabled={submitting}) and ResultsView onRetake
ResetQuiz ==
  /\ mounted = "AptitudeQuizSection"
  /\ sec_result # Null \/ ~sec_submitting
  /\ sec_answers' = SecNoAnswers
  /\ sec_current' = ResetCursor
  /\ sec_submitting' = FALSE
  /\ sec_result' = Null
  /\ sec_error' = None
  /\ sec_op' = "resetQuiz"
  /\ UNCHANGED sec_payload
  /\ SecFrame

\* handleSubmit up to the awaited fetch: See Results button (isLast),
\* disabled={submitting}
SecHandleSubmit ==
  /\ SecQuizView /\ isLast /\ ~sec_submitting
  /\ IF selected = None
       THEN /\ sec_error' = "Please select an option to continue."
            /\ UNCHANGED <<sec_submitting, sec_payload>>
       ELSE /\ sec_submitting' = TRUE
            /\ sec_error' = None
            /\ sec_payload' = Some(sec_answers)
  /\ sec_op' = "handleSubmit"
  /\ UNCHANGED <<sec_current, sec_answers, sec_result>>
  /\ SecFrame

\* normalizeResult(data): the server's recommendations, or buildHeuristicResult()
\* when the body carries no recommendations array
normalizeResult(hasRecommendations) ==
  IF hasRecommendations THEN [from |-> "server"] ELSE [from |-> "heuristic"]

\* handleSubmit after res.ok: setResult(normalized); finally setSubmitting(false)
SecSubmitOk(hasRecommendations) ==
  /\ mounted = "AptitudeQuizSection" /\ sec_payload # Null
  /\ sec_result' = Some(normalizeResult(hasRecommendations))
  /\ sec_submitting' = FALSE
  /\ sec_payload' = Null
  /\ sec_op' = "submitOk"
  /\ UNCHANGED <<sec_current, sec_answers, sec_error>>
  /\ SecFrame

\* handleSubmit's catch (fetch rejected or !res.ok): setError; finally
SecSubmitFailed ==
  /\ mounted = "AptitudeQuizSection" /\ sec_payload # Null
  /\ sec_error' = "Failed to process quiz. Please try again."
  /\ sec_submitting' = FALSE
  /\ sec_payload' = Null
  /\ sec_op' = "submitFailed"
  /\ UNCHANGED <<sec_current, sec_answers, sec_result>>
  /\ SecFrame

NextSection ==
  \/ \E value \in OptionValues : SecHandleSelect(value)
  \/ SecHandlePrev
  \/ SecHandleNext
  \/ ResetQuiz
  \/ SecHandleSubmit
  \/ \E hasRecommendations \in BOOLEAN : SecSubmitOk(hasRecommendations)
  \/ SecSubmitFailed

\* ========================================================================
\* CollegesMapSection
\* ========================================================================

\* values the controls can produce
Centers == {"defaultCenter", "located"}
Radii == {25, 30}
Courses == {"engineering"}
Rankings == {"top-50"}

NoColleges == [lat |-> "-", radiusKm |-> 0, course |-> "-", ranking |-> "-"]

\* the body the endpoint returns for a request: the colleges matching the
\* query string built from coords, radiusKm, course and ranking
CollegesFor(req) ==
  [lat |-> req.coords, radiusKm |-> req.radiusKm, course |-> req.course,
   ranking |-> req.ranking]

InitMap ==
  /\ center = "defaultCenter" /\ radiusKm = 25 /\ course = None /\ ranking = None
  /\ isFetching = FALSE /\ map_error = None /\ colleges = NoColleges
  /\ requests = <<>> /\ superseded = FALSE /\ map_op = "init"

MapFrame == UNCHANGED <<mounted, quizVars, secVars, trkVars, chatVars, evalVars, recVars>>

\* the request fetchColleges(coords) builds from the state of one render
NewRequest(coords, r, c, rk) ==
  [coords |-> coords, radiusKm |-> r, course |-> c, ranking |-> rk,
   status |-> "pending"]

\* fetchColleges up to its await: a new AbortController whose abort() is only
\* returned to the caller (never called), setIsFetching(true), setError(null),
\* fetch(...).  Requests issued earlier stay outstanding.
FetchColleges(reqs, coords, r, c, rk) == Append(reqs, NewRequest(coords, r, c, rk))

\* mount: the "Initial fetch" effect and the "Refetch when filters change"
\* effect both run and each calls fetchColleges(center)
MapMount ==
  /\ mounted = "CollegesMapSection" /\ requests = <<>>
  /\ requests' = FetchColleges(FetchColleges(requests, center, radiusKm, course, ranking),
                               center, radiusKm, course, ranking)
  /\ isFetching' = TRUE /\ map_error' = None
  /\ map_op' = "mount"
  /\ UNCHANGED <<center, radiusKm, course, ranking, colleges, superseded>>
  /\ MapFrame

Pending(k) == k \in 1..Len(requests) /\ requests[k].status = "pending"
AnyPending(reqs) == \E k \in 1..Len(reqs) : reqs[k].status = "pending"

MapReady == mounted = "CollegesMapSection" /\ requests # <<>>
              /\ Len(requests) < MaxRequests

\* a filter changed: the refetch effect runs with the new render's values
Refetch(coords, r, c, rk) ==
  /\ requests' = FetchColleges(requests, coords, r, c, rk)
  /\ isFetching' = TRUE /\ map_error' = None
  /\ superseded' = (superseded \/ AnyPending(requests))
  /\ UNCHANGED colleges
  /\ MapFrame

\* setCenter(coords) from handleLocate / handleSearchLocation (a new object
\* every time, so the effect always re-runs)
SetCenter(coords) ==
  /\ MapReady
  /\ center' = coords
  /\ map_op' = "setCenter"
  /\ UNCHANGED <<radiusKm, course, ranking>>
  /\ Refetch(coords, radiusKm, course, ranking)

\* Slider onValueChange
SetRadiusKm(r) ==
  /\ MapReady /\ r # radiusKm
  /\ radiusKm' = r
  /\ map_op' = "setRadiusKm"
  /\ UNCHANGED <<center, course, ranking>>
  /\ Refetch(center, r, course, ranking)

\* Select onValueChange={(v) => setCourse(v)}
SetCourse(c) ==
  /\ MapReady /\ c # course
  /\ course' = c
  /\ map_op' = "setCourse"
  /\ UNCHANGED <<center, radiusKm, ranking>>
  /\ Refetch(center, radiusKm, c, ranking)

\* Select onValueChange={(v) => setRanking(v)}
SetRanking(rk) ==
  /\ MapReady /\ rk # ranking
  /\ ranking' = rk
  /\ map_op' = "setRanking"
  /\ UNCHANGED <<center, radiusKm, course>>
  /\ Refetch(center, radiusKm, course, rk)


\* a request of fetchColleges resolved with res.ok: setColleges(data);
\* finally setIsFetching(false)
FetchResolved(k) ==
  /\ mounted = "CollegesMapSection" /\ Pending(k)
  /\ colleges' = CollegesFor(requests[k])
  /\ isFetching' = FALSE
  /\ requests' = [requests EXCEPT ![k].status = "ok"]
  /\ map_op' = "fetchResolved"
  /\ UNCHANGED <<center, radiusKm, course, ranking, map_error, superseded>>
  /\ MapFrame

\* a request of fetchColleges failed (rejected or !res.ok): setError(msg);
\* finally setIsFetching(false)
FetchFailed(k) ==
  /\ mounted = "CollegesMapSection" /\ Pending(k)
  /\ map_error' = "Failed to load colleges"
  /\ isFetching' = FALSE
  /\ requests' = [requests EXCEPT ![k].status = "failed"]
  /\ map_op' = "fetchFailed"
  /\ UNCHANGED <<center, radiusKm, course, ranking, colleges, superseded>>
  /\ MapFrame

NextMap ==
  \/ MapMount
  \/ \E coords \in Centers : SetCenter(coords)
  \/ \E r \in Radii : SetRadiusKm(r)
  \/ \E c \in Courses : SetCourse(c)
  \/ \E rk \in Rankings : SetRanking(rk)
  \/ \E k \in 1..MaxRequests : FetchResolved(k)
  \/ \E k \in 1..MaxRequests : FetchFailed(k)

\* ========================================================================
\* ScholarshipsTrackerSection
\* ========================================================================

HoursPerDay == 24
\* the clock reading at mount (noon of day 0)
NowStart == 12

\* deadline: null
NoDeadline == -1
\* deadline: a string new Date() does not parse (getTime() is NaN)
InvalidDeadline == -3
\* reminderDate: null / key absent
NullDate == -1
UndefinedDate == -2

DEFAULT_DOCS ==
  << "Aadhaar Card", "Income Certificate",
     "Caste/Category Certificate (if applicable)", "Previous Marksheet",
     "Bonafide Student Certificate", "Bank Passbook" >>

\* the response of GET /api/scholarships after sanitizeScholarships
Catalog ==
  << [id |-> "s1", name |-> <<"M", "e", "r", "i", "t">>, amount |-> [kind |-> "number", val |-> 5000],
      eligibility |-> <<"U", "G">>, category |-> <<"M", "e", "r", "i", "t">>,
      deadline |-> 6 * HoursPerDay, documents |-> <<"Transcript">>],
     [id |-> "s2", name |-> <<"N", "e", "e", "d">>, amount |-> [kind |-> "string", val |-> <<"5", "k">>],
      eligibility |-> <<"P", "G">>, category |-> <<"N", "e", "e", "d">>,
      deadline |-> NoDeadline, documents |-> <<>>] >>

ScholarshipIds == {Catalog[i].id : i \in 1..Len(Catalog)}

StatusInputs == {"in_progress", "submitted"}

RangeOf(seq) == {seq[i] : i \in 1..Len(seq)}

\* suggestReminder(deadline) evaluated at clock reading t
suggestReminder(deadline, t) ==
  IF deadline = NoDeadline \/ deadline = InvalidDeadline THEN NullDate
  ELSE LET reminder == deadline - 5 * HoursPerDay
       IN IF reminder < t
            THEN ((t \div HoursPerDay) + 1) * HoursPerDay + 9
            ELSE reminder

\* (s.documents && s.documents.length > 0 ? s.documents : DEFAULT_DOCS)
\*   .reduce((acc, d) => { acc[d] = false; return acc }, {})
checklistDocs(s) ==
  [d \in RangeOf(IF Len(s.documents) > 0 THEN s.documents ELSE DEFAULT_DOCS) |-> FALSE]

EmptyChecklist == [d \in {} |-> FALSE]
NoTracked == [x \in {} |-> 0]

\* { ...prev, [id]: item }
WithItem(prev, id, item) ==
  [x \in (DOMAIN prev) \cup {id} |-> IF x = id THEN item ELSE prev[x]]

\* the TrackedItem handleSaveToggle seeds
SeededItem(s, t) ==
  [id |-> s.id, status |-> "planning", reminderDate |-> suggestReminder(s.deadline, t),
   checklist |-> checklistDocs(s), savedAt |-> t]

\* the updater without the tprev[s.id] test
SeedIfAbsent_Reseed(tprev, s, t) == WithItem(tprev, s.id, SeededItem(s, t))

\* the setTracked updater inside handleSaveToggle
SeedIfAbsent(tprev, s, t) ==
  IF s.id \in DOMAIN tprev THEN tprev ELSE WithItem(tprev, s.id, SeededItem(s, t))

\* the setTracked updater of handleStatusChange
StatusUpdated(prev, id, status, t) ==
  WithItem(prev, id,
    [ (IF id \in DOMAIN prev THEN prev[id]
       ELSE [id |-> id, status |-> "planning", savedAt |-> t,
             checklist |-> EmptyChecklist, reminderDate |-> UndefinedDate])
      EXCEPT !.status = status ])

\* the setTracked updater of handleReminder
ReminderUpdated(prev, s, t) ==
  WithItem(prev, s.id,
    [ (IF s.id \in DOMAIN prev THEN prev[s.id]
       ELSE [id |-> s.id, status |-> "planning", savedAt |-> t,
             checklist |-> checklistDocs(s), reminderDate |-> UndefinedDate])
      EXCEPT !.reminderDate = suggestReminder(s.deadline, t) ])

\* ---- filter engine ------------------------------------------------------
\* Texts are sequences of characters.  An amount is a number or a string:
\* [kind |-> "number", val |-> n] or [kind |-> "string", val |-> text].

UpperChars == <<"A", "B", "C", "D", "E", "F", "G", "H", "I", "J", "K", "L", "M",
                "N", "O", "P", "Q", "R", "S", "T", "U", "V", "W", "X", "Y", "Z">>
LowerChars == <<"a", "b", "c", "d", "e", "f", "g", "h", "i", "j", "k", "l", "m",
                "n", "o", "p", "q", "r", "s", "t", "u", "v", "w", "x", "y", "z">>
DigitChars == <<"0", "1", "2", "3", "4", "5", "6", "7", "8", "9">>
\* the rupee sign
Rupee == "rupee"

\* String.prototype.toLowerCase
toLowerCase(str) ==
  [i \in 1..Len(str) |->
     IF \E k \in 1..Len(UpperChars) : UpperChars[k] = str[i]
       THEN LowerChars[CHOOSE k \in 1..Len(UpperChars) : UpperChars[k] = str[i]]
       ELSE str[i]]

\* String.prototype.includes
includes(hay, needle) ==
  \E i \in 0..(Len(hay) - Len(needle)) : SubSeq(hay, i + 1, i + Len(needle)) = needle

\* String.prototype.trim
RECURSIVE trimStart(_)
trimStart(str) == IF str # <<>> /\ Head(str) = " " THEN trimStart(Tail(str)) ELSE str
RECURSIVE trimEnd(_)
trimEnd(str) ==
  IF str # <<>> /\ str[Len(str)] = " " THEN trimEnd(SubSeq(str, 1, Len(str) - 1)) ELSE str
trim(str) == trimEnd(trimStart(str))

\* String(n) for a natural number n
RECURSIVE StringOfNat(_)
StringOfNat(n) ==
  IF n < 10 THEN <<DigitChars[n + 1]>>
  ELSE Append(StringOfNat(n \div 10), DigitChars[(n % 10) + 1])

\* String(s.amount)
StringOfAmount(amount) ==
  IF amount.kind = "number" THEN StringOfNat(amount.val) ELSE amount.val

\* parseFloat of a text without sign, point or exponent: the number its
\* leading digits spell, NaN without a leading digit
NaN == -1
IsDigit(c) == \E k \in 1..Len(DigitChars) : DigitChars[k] = c
DigitValue(c) == (CHOOSE k \in 1..Len(DigitChars) : DigitChars[k] = c) - 1
RECURSIVE DigitPrefix(_)
DigitPrefix(str) ==
  IF str # <<>> /\ IsDigit(Head(str)) THEN <<Head(str)>> \o DigitPrefix(Tail(str)) ELSE <<>>
RECURSIVE NatOfDigits(_)
NatOfDigits(ds) ==
  IF ds = <<>> THEN 0
  ELSE 10 * NatOfDigits(SubSeq(ds, 1, Len(ds) - 1)) + DigitValue(ds[Len(ds)])
parseFloat(str) == IF DigitPrefix(str) = <<>> THEN NaN ELSE NatOfDigits(DigitPrefix(str))

\* parseAmount(val)
parseAmount(amount) ==
  IF amount.kind = "number" THEN amount.val
  ELSE LET clean == toLowerCase(SelectSeq(amount.val, LAMBDA c : c \notin {",", Rupee, " "}))
       IN IF clean # <<>> /\ clean[Len(clean)] = "k"
            THEN LET n == parseFloat(SubSeq(clean, 1, Len(clean) - 1))
                 IN IF n = NaN THEN 0 ELSE n * 1000
            ELSE LET n == parseFloat(clean) IN IF n = NaN THEN 0 ELSE n

\* the query test of filtered: q is query.toLowerCase(), not trimmed
MatchesQuery(s, queryText) ==
  LET q == toLowerCase(queryText) IN
    \/ includes(toLowerCase(s.name), q)
    \/ includes(toLowerCase(s.eligibility), q)
    \/ includes(toLowerCase(s.category), q)
    \/ includes(toLowerCase(StringOfAmount(s.amount)), q)

\* parseInt(deadlineWindow, 10)
WindowDays(w) == CASE w = "7" -> 7 [] w = "14" -> 14 [] w = "30" -> 30

\* Math.ceil((d.getTime() - now.getTime()) / (1000 * 60 * 60 * 24)), in hours
DiffDays(deadline, t) == 0 - ((t - deadline) \div HoursPerDay)

\* a window test that leaves out the day of the deadline
WithinWindow_Strict(s, days, t) ==
  /\ s.deadline # NoDeadline /\ s.deadline # InvalidDeadline
  /\ DiffDays(s.deadline, t) > 0 /\ DiffDays(s.deadline, t) <= days

\* the deadline test of filtered
WithinWindow(s, days, t) ==
  /\ s.deadline # NoDeadline /\ s.deadline # InvalidDeadline
  /\ DiffDays(s.deadline, t) >= 0 /\ DiffDays(s.deadline, t) <= days

\* daysUntil of the scholarship finder: the same ceiling, NaN for a date that
\* does not parse
daysUntil(dateISO, t) ==
  IF dateISO = InvalidDeadline THEN NaN ELSE DiffDays(dateISO, t)

\* isWithin of the scholarship finder: d >= 0 && d <= windowDays, false for NaN
isWithin(dateISO, windowDays, t) ==
  LET d == daysUntil(dateISO, t) IN
    dateISO # InvalidDeadline /\ d >= 0 /\ d <= windowDays

\* list.sort((a, b) => order === "asc" ? av - bv : bv - av): the comparator
CompareAmount(a, b, order) ==
  IF order = "asc" THEN parseAmount(a.amount) - parseAmount(b.amount)
  ELSE parseAmount(b.amount) - parseAmount(a.amount)

\* Array.prototype.sort (stable)
RECURSIVE InsertSorted(_, _, _)
InsertSorted(sorted, x, order) ==
  IF sorted = <<>> THEN <<x>>
  ELSE IF CompareAmount(Head(sorted), x, order) <= 0
         THEN <<Head(sorted)>> \o InsertSorted(Tail(sorted), x, order)
         ELSE <<x>> \o sorted
RECURSIVE SortByAmount(_, _)
SortByAmount(list, order) ==
  IF list = <<>> THEN <<>>
  ELSE InsertSorted(SortByAmount(SubSeq(list, 1, Len(list) - 1), order),
                    list[Len(list)], order)

\* filtered without the eligibility step
FilteredList_NoEligibility(list, q, cat, elig, window, order, t) ==
  LET byQuery == IF trim(q) # <<>> THEN SelectSeq(list, LAMBDA s : MatchesQuery(s, q))
                 ELSE list
      byCategory == IF cat # <<>> THEN SelectSeq(byQuery, LAMBDA s : s.category = cat)
                    ELSE byQuery
      byWindow == IF window # "all"
                    THEN SelectSeq(byCategory,
                                   LAMBDA s : WithinWindow(s, WindowDays(window), t))
                    ELSE byCategory
  IN IF order # None THEN SortByAmount(byWindow, order) ELSE byWindow

\* the body of the filtered memo, new Date() reading t
FilteredList(list, q, cat, elig, window, order, t) ==
  LET byQuery == IF trim(q) # <<>> THEN SelectSeq(list, LAMBDA s : MatchesQuery(s, q))
                 ELSE list
      byCategory == IF cat # <<>> THEN SelectSeq(byQuery, LAMBDA s : s.category = cat)
                    ELSE byQuery
      byEligibility == IF elig # <<>>
                         THEN SelectSeq(byCategory, LAMBDA s : includes(s.eligibility, elig))
                         ELSE byCategory
      byWindow == IF window # "all"
                    THEN SelectSeq(byEligibility,
                                   LAMBDA s : WithinWindow(s, WindowDays(window), t))
                    ELSE byEligibility
  IN IF order # None THEN SortByAmount(byWindow, order) ELSE byWindow

\* the options of the Category select
categories(list) == {list[i].category : i \in {k \in 1..Len(list) : list[k].category # <<>>}}

\* s.eligibility.split(/[.;|]/)[0]
RECURSIVE firstClause(_)
firstClause(str) ==
  IF str = <<>> \/ Head(str) \in {".", ";", "|"} THEN <<>>
  ELSE <<Head(str)>> \o firstClause(Tail(str))

\* the options of the Eligibility select (catalogs of at most 12 clauses)
eligibilities(list) ==
  {trim(firstClause(list[i].eligibility)) :
     i \in {k \in 1..Len(list) : list[k].eligibility # <<>>}}

\* catalogs /api/scholarships may answer with (after sanitizeScholarships)
CatalogWindow ==
  << [id |-> "d2", name |-> <<"M", "e", "r", "i", "t">>, amount |-> [kind |-> "number", val |-> 5000],
      eligibility |-> <<"U", "G", ";", " ", "a", "l", "l">>, category |-> <<"M", "e", "r", "i", "t">>,
      deadline |-> NowStart + 2 * HoursPerDay, documents |-> <<>>],
     [id |-> "d10", name |-> <<"N", "e", "e", "d">>, amount |-> [kind |-> "string", val |-> <<"5", "k">>],
      eligibility |-> <<"P", "G">>, category |-> <<"N", "e", "e", "d">>,
      deadline |-> NowStart + 10 * HoursPerDay, documents |-> <<>>],
     [id |-> "d40", name |-> <<"S", "T", "E", "M">>, amount |-> [kind |-> "string", val |-> <<Rupee, "2", ",", "0", "0", "0">>],
      eligibility |-> <<"U", "G">>, category |-> <<"M", "e", "r", "i", "t">>,
      deadline |-> NowStart + 40 * HoursPerDay, documents |-> <<>>],
     [id |-> "open", name |-> <<"O", "p", "e", "n">>, amount |-> [kind |-> "string", val |-> <<"T", "B", "D">>],
      eligibility |-> <<"P", "G">>, category |-> <<"N", "e", "e", "d">>,
      deadline |-> NoDeadline, documents |-> <<>>],
     [id |-> "bad", name |-> <<"A", "r", "t", "s">>, amount |-> [kind |-> "number", val |-> 700],
      eligibility |-> <<"U", "G">>, category |-> <<"M", "e", "r", "i", "t">>,
      deadline |-> InvalidDeadline, documents |-> <<>>] >>

\* deadlines around the ends of the windows, and a record listed twice
CatalogEdges ==
  LET rec(id, deadline, n) ==
        [id |-> id, name |-> <<"M", "e", "r", "i", "t">>, amount |-> [kind |-> "number", val |-> n],
         eligibility |-> <<"U", "G">>, category |-> <<"M", "e", "r", "i", "t">>, deadline |-> deadline,
         documents |-> <<>>]
  IN << rec("past", NowStart - HoursPerDay \div 2, 300),
        rec("today", NowStart, 100),
        rec("d7", NowStart + 7 * HoursPerDay, 200),
        rec("d7late", NowStart + 7 * HoursPerDay + 1, 200),
        rec("twice", NowStart + 30 * HoursPerDay, 50),
        rec("twice", NowStart + 30 * HoursPerDay, 50) >>

Catalogs == {<<>>, Catalog, CatalogWindow, CatalogEdges}

\* what is typed into the search box
QueryInputs == {<<>>, <<" ">>, <<"m", "e">>, <<"M", "E", " ">>, <<"5">>}
WindowInputs == {"7", "14", "30", "all"}
OrderInputs == {"asc", "desc"}

\* Array.from(savedIds): the members of the Set, one after the other
RECURSIVE ArrayFrom(_)
ArrayFrom(S) ==
  IF S = {} THEN <<>>
  ELSE LET x == CHOOSE y \in S : TRUE IN <<x>> \o ArrayFrom(S \ {x})

\* JSON.stringify of a TrackedItem that also leaves out the null members
JsonOfItem_DropNull(item) ==
  [k \in (IF item.reminderDate \in {UndefinedDate, NullDate}
            THEN {"id", "status", "checklist", "savedAt"}
            ELSE {"id", "status", "reminderDate", "checklist", "savedAt"})
     |-> item[k]]

\* JSON.stringify of a TrackedItem: the members of the object, a member whose
\* value is undefined left out
JsonOfItem(item) ==
  [k \in (IF item.reminderDate = UndefinedDate
            THEN {"id", "status", "checklist", "savedAt"}
            ELSE {"id", "status", "reminderDate", "checklist", "savedAt"})
     |-> item[k]]

\* the TrackedItem JSON.parse gives back; reading a member that is not there
\* yields undefined
ItemOfJson(j) ==
  [id |-> j["id"], status |-> j["status"],
   reminderDate |-> IF "reminderDate" \in DOMAIN j THEN j["reminderDate"]
                    ELSE UndefinedDate,
   checklist |-> j["checklist"], savedAt |-> j["savedAt"]]

\* JSON.stringify(tracked) / JSON.parse(trackedRaw)
JsonOfTracked(items) == [id \in DOMAIN items |-> JsonOfItem(items[id])]
TrackedOfJson(j) == [id \in DOMAIN j |-> ItemOfJson(j[id])]

\* new Set(JSON.parse(savedRaw))
SavedOfJson(arr) == RangeOf(arr)

\* the two persist effects: localStorage.setItem of the whole value,
\* JSON.stringify(Array.from(savedIds)) and JSON.stringify(tracked)
Persisted(ids, items) == [saved |-> ArrayFrom(ids), tracked |-> JsonOfTracked(items)]

InitTracker ==
  /\ scholarships = <<>> /\ loading = TRUE /\ trk_error = None
  /\ savedIds = {} /\ tracked = NoTracked
  /\ now = NowStart
  /\ storage = Persisted({}, NoTracked)
  /\ everSaved = {} /\ firstSave = None
  /\ trk_op = "init"
  /\ query = <<>> /\ category = <<>> /\ eligibility = <<>>
  /\ amountOrder = None /\ deadlineWindow = "all"
  /\ filtered = <<>> /\ filteredAt = NowStart

TrkFrame == UNCHANGED <<mounted, quizVars, secVars, mapVars, chatVars, evalVars, recVars>>

\* the filter controls keep their values
fltVars == <<query, category, eligibility, amountOrder, deadlineWindow>>

\* no dependency of the filtered memo changed: the list is not recomputed
FiltersKept == UNCHANGED <<fltVars, filtered, filteredAt>>

\* a dependency of the filtered memo changed: it is recomputed in the render
Refiltered(list, q, cat, elig, window, order) ==
  /\ filtered' = FilteredList(list, q, cat, elig, window, order, now)
  /\ filteredAt' = IF window # "all" THEN now ELSE filteredAt

\* fetchData resolved: setScholarships(sanitizeScholarships(data))
FetchScholarshipsOk(data) ==
  /\ mounted = "ScholarshipsTrackerSection" /\ loading
  /\ scholarships' = data
  /\ loading' = FALSE
  /\ firstSave' = None
  /\ trk_op' = "fetchOk"
  /\ UNCHANGED <<trk_error, savedIds, tracked, now, storage, everSaved, fltVars>>
  /\ Refiltered(data, query, category, eligibility, deadlineWindow, amountOrder)
  /\ TrkFrame

\* fetchData failed: setError(...)
FetchScholarshipsFailed ==
  /\ mounted = "ScholarshipsTrackerSection" /\ loading
  /\ trk_error' = "We couldn't load scholarships right now."
  /\ loading' = FALSE
  /\ firstSave' = None
  /\ trk_op' = "fetchFailed"
  /\ UNCHANGED <<scholarships, savedIds, tracked, now, storage, everSaved>>
  /\ FiltersKept
  /\ TrkFrame

\* the cards of the Discover list: renderList(filtered)
Listed(i) ==
  /\ mounted = "ScholarshipsTrackerSection"
  /\ ~loading /\ trk_error = None
  /\ i \in 1..Len(scholarships)
  /\ \E k \in 1..Len(filtered) : filtered[k] = scholarships[i]

\* the cards of My Tracker: scholarships.filter((s) => savedIds.has(s.id))
InTrackerTab(i) ==
  /\ mounted = "ScholarshipsTrackerSection"
  /\ i \in 1..Len(scholarships)
  /\ scholarships[i].id \in savedIds

\* handleSaveToggle(s): Save/Saved button of a card, Remove of a tracker card
HandleSaveToggle(i) ==
  /\ Listed(i) \/ InTrackerTab(i)
  /\ LET s == scholarships[i] IN
       IF s.id \in savedIds
         THEN /\ savedIds' = savedIds \ {s.id}
              /\ UNCHANGED tracked
              /\ firstSave' = None
              /\ trk_op' = "unsave"
         ELSE /\ savedIds' = savedIds \cup {s.id}
              /\ tracked' = SeedIfAbsent(tracked, s, now)
              /\ firstSave' = IF s.id \in everSaved THEN None ELSE s.id
              /\ trk_op' = "save"
  /\ everSaved' = everSaved \cup savedIds'
  /\ storage' = Persisted(savedIds', tracked')
  /\ UNCHANGED <<scholarships, loading, trk_error, now>>
  /\ FiltersKept
  /\ TrkFrame

\* handleStatusChange(s.id, v): the status Select of a Discover card or of a
\* tracker card
HandleStatusChange(i, status) ==
  /\ Listed(i) \/ InTrackerTab(i)
  /\ tracked' = StatusUpdated(tracked, scholarships[i].id, status, now)
  /\ storage' = Persisted(savedIds, tracked')
  /\ firstSave' = None
  /\ trk_op' = "setStatus"
  /\ UNCHANGED <<scholarships, loading, trk_error, savedIds, now, everSaved>>
  /\ FiltersKept
  /\ TrkFrame

\* the checkboxes a tracker card shows: the keys of t?.checklist, or of the
\* derived list when the item has no TrackedItem
ShownDocs(s) ==
  IF s.id \in DOMAIN tracked THEN DOMAIN tracked[s.id].checklist
  ELSE DOMAIN checklistDocs(s)

\* the checkbox exercised: the first one shown
DocInputs(s) == IF ShownDocs(s) = {} THEN {} ELSE {CHOOSE d \in ShownDocs(s) : TRUE}

\* handleChecklistToggle(s.id, doc, Boolean(v))
HandleChecklistToggle(i, doc, checked) ==
  /\ InTrackerTab(i)
  /\ doc \in DocInputs(scholarships[i])
  /\ LET id == scholarships[i].id IN
       tracked' = IF id \in DOMAIN tracked
                    THEN [tracked EXCEPT ![id].checklist =
                            [d \in (DOMAIN @) \cup {doc} |-> IF d = doc THEN checked ELSE @[d]]]
                    ELSE tracked
  /\ storage' = Persisted(savedIds, tracked')
  /\ firstSave' = None
  /\ trk_op' = "setChecklistItem"
  /\ UNCHANGED <<scholarships, loading, trk_error, savedIds, now, everSaved>>
  /\ FiltersKept
  /\ TrkFrame

\* handleReminder(s): Reminder button of a Discover card, Set reminder /
\* Nudge me of a tracker card
HandleReminder(i) ==
  /\ Listed(i) \/ InTrackerTab(i)
  /\ tracked' = ReminderUpdated(tracked, scholarships[i], now)
  /\ storage' = Persisted(savedIds, tracked')
  /\ firstSave' = None
  /\ trk_op' = "setReminder"
  /\ UNCHANGED <<scholarships, loading, trk_error, savedIds, now, everSaved>>
  /\ FiltersKept
  /\ TrkFrame

\* the page is loaded again: the state is constructed anew, the load effect
\* reads both entries (setSavedIds, setTracked), the persist effects write the
\* state of the first render and, after the re-render, the loaded state; the
\* catalog is fetched again
TrkReload ==
  /\ mounted = "ScholarshipsTrackerSection"
  /\ savedIds' = SavedOfJson(storage.saved)
  /\ tracked' = TrackedOfJson(storage.tracked)
  /\ storage' = Persisted(savedIds', tracked')
  /\ scholarships' = <<>> /\ loading' = TRUE /\ trk_error' = None
  /\ firstSave' = None
  /\ trk_op' = "reload"
  /\ query' = <<>> /\ category' = <<>> /\ eligibility' = <<>>
  /\ amountOrder' = None /\ deadlineWindow' = "all"
  /\ filtered' = <<>>
  /\ UNCHANGED <<now, everSaved, filteredAt>>
  /\ TrkFrame

\* what localStorage.getItem gives for an entry: the JSON the component wrote,
\* null (the entry is missing), or text that JSON.parse rejects
EntryKinds == {"valid", "missing", "corrupt"}

\* the savedIds after the load effect: setSavedIds runs if the entry is there
\* and parses
LoadedSaved(savedKind, entry) ==
  IF savedKind = "valid" THEN SavedOfJson(entry) ELSE {}

\* the tracked map after the load effect: both entries are parsed in one try
\* block, the saved one first, so setTracked is not reached when that throws
LoadedTracked(savedKind, trackedKind, entry) ==
  IF savedKind # "corrupt" /\ trackedKind = "valid" THEN TrackedOfJson(entry)
  ELSE NoTracked

\* the name of the load step, by the entries it found
LoadOp(savedKind, trackedKind) ==
  CASE savedKind = "valid" /\ trackedKind = "valid" -> "reload"
    [] savedKind = "valid" /\ trackedKind = "missing" -> "reload: tracked missing"
    [] savedKind = "valid" /\ trackedKind = "corrupt" -> "reload: tracked corrupt"
    [] savedKind = "missing" /\ trackedKind = "valid" -> "reload: saved missing"
    [] savedKind = "missing" /\ trackedKind = "missing" -> "reload: both missing"
    [] savedKind = "missing" /\ trackedKind = "corrupt" -> "reload: saved missing, tracked corrupt"
    [] savedKind = "corrupt" /\ trackedKind = "valid" -> "reload: saved corrupt"
    [] savedKind = "corrupt" /\ trackedKind = "missing" -> "reload: saved corrupt, tracked missing"
    [] savedKind = "corrupt" /\ trackedKind = "corrupt" -> "reload: both corrupt"

\* the page is loaded again after entries were removed or overwritten with
\* text that is no JSON (site data cleared, another script, a torn write):
\* the load effect, then the persist effects of the first render and of the
\* re-render
TrkReloadDamaged(savedKind, trackedKind) ==
  /\ mounted = "ScholarshipsTrackerSection"
  /\ <<savedKind, trackedKind>> # <<"valid", "valid">>
  /\ savedIds' = LoadedSaved(savedKind, storage.saved)
  /\ tracked' = LoadedTracked(savedKind, trackedKind, storage.tracked)
  /\ storage' = Persisted(savedIds', tracked')
  /\ scholarships' = <<>> /\ loading' = TRUE /\ trk_error' = None
  /\ firstSave' = None
  /\ trk_op' = LoadOp(savedKind, trackedKind)
  /\ query' = <<>> /\ category' = <<>> /\ eligibility' = <<>>
  /\ amountOrder' = None /\ deadlineWindow' = "all"
  /\ filtered' = <<>>
  /\ UNCHANGED <<now, everSaved, filteredAt>>
  /\ TrkFrame

\* time passes (a day)
AdvanceClock ==
  /\ mounted = "ScholarshipsTrackerSection"
  /\ now < NowStart + MaxNow * HoursPerDay
  /\ now' = now + HoursPerDay
  /\ firstSave' = None
  /\ trk_op' = "clock"
  /\ UNCHANGED <<scholarships, loading, trk_error, savedIds, tracked, storage, everSaved>>
  /\ FiltersKept
  /\ TrkFrame

\* the tracker state stays as it is
TrackerKept ==
  UNCHANGED <<scholarships, loading, trk_error, savedIds, tracked, now, storage,
              everSaved>>

\* Input onChange={(e) => setQuery(e.target.value)}
SetQuery(v) ==
  /\ mounted = "ScholarshipsTrackerSection" /\ v # query
  /\ query' = v
  /\ UNCHANGED <<category, eligibility, amountOrder, deadlineWindow>>
  /\ Refiltered(scholarships, v, category, eligibility, deadlineWindow, amountOrder)
  /\ firstSave' = None /\ trk_op' = "setQuery"
  /\ TrackerKept /\ TrkFrame

\* Select onValueChange={(v) => setCategory(v)}, an item per category
SetCategory(v) ==
  /\ mounted = "ScholarshipsTrackerSection"
  /\ v \in categories(scholarships) /\ v # category
  /\ category' = v
  /\ UNCHANGED <<query, eligibility, amountOrder, deadlineWindow>>
  /\ Refiltered(scholarships, query, v, eligibility, deadlineWindow, amountOrder)
  /\ firstSave' = None /\ trk_op' = "setCategory"
  /\ TrackerKept /\ TrkFrame

\* Select onValueChange={(v) => setEligibility(v)}, an item per first clause
SetEligibility(v) ==
  /\ mounted = "ScholarshipsTrackerSection"
  /\ v \in eligibilities(scholarships) /\ v # eligibility
  /\ eligibility' = v
  /\ UNCHANGED <<query, category, amountOrder, deadlineWindow>>
  /\ Refiltered(scholarships, query, category, v, deadlineWindow, amountOrder)
  /\ firstSave' = None /\ trk_op' = "setEligibility"
  /\ TrackerKept /\ TrkFrame

\* Select onValueChange={(v) => setAmountOrder(v)}
SetAmountOrder(v) ==
  /\ mounted = "ScholarshipsTrackerSection" /\ v # amountOrder
  /\ amountOrder' = v
  /\ UNCHANGED <<query, category, eligibility, deadlineWindow>>
  /\ Refiltered(scholarships, query, category, eligibility, deadlineWindow, v)
  /\ firstSave' = None /\ trk_op' = "setAmountOrder"
  /\ TrackerKept /\ TrkFrame

\* Select onValueChange={(v) => setDeadlineWindow(v)}
SetDeadlineWindow(v) ==
  /\ mounted = "ScholarshipsTrackerSection" /\ v # deadlineWindow
  /\ deadlineWindow' = v
  /\ UNCHANGED <<query, category, eligibility, amountOrder>>
  /\ Refiltered(scholarships, query, category, eligibility, v, amountOrder)
  /\ firstSave' = None /\ trk_op' = "setDeadlineWindow"
  /\ TrackerKept /\ TrkFrame

\* the filter controls, over every catalog the fetch may bring
NextFilters ==
  \/ \E data \in Catalogs : FetchScholarshipsOk(data)
  \/ \E v \in QueryInputs : SetQuery(v)
  \/ \E v \in categories(scholarships) : SetCategory(v)
  \/ \E v \in eligibilities(scholarships) : SetEligibility(v)
  \/ \E v \in OrderInputs : SetAmountOrder(v)
  \/ \E v \in WindowInputs : SetDeadlineWindow(v)
  \/ AdvanceClock

NextTracker ==
  \/ FetchScholarshipsOk(Catalog)
  \/ FetchScholarshipsFailed
  \/ \E i \in 1..Len(Catalog) : HandleSaveToggle(i)
  \/ \E i \in 1..Len(Catalog), status \in StatusInputs : HandleStatusChange(i, status)
  \/ \E i \in 1..Len(Catalog), doc \in {"Transcript"} \cup RangeOf(DEFAULT_DOCS),
        checked \in BOOLEAN : HandleChecklistToggle(i, doc, checked)
  \/ \E i \in 1..Len(Catalog) : HandleReminder(i)
  \/ TrkReload
  \/ \E sk \in EntryKinds, tk \in EntryKinds : TrkReloadDamaged(sk, tk)
  \/ AdvanceClock

\* ========================================================================
\* ChatbotInterface
\* ========================================================================
\* The timestamps of conversations and messages (Date.now()) and the
\* bookmark flag are left out.  The passive effects of a commit (persist,
\* ensure-one) run after it is painted: until they have run, the handlers of
\* the committed render can still be invoked, and sendMessage, the handler
\* whose guard reads that render, is the one modelled in that window.

\* activeId: null
NoId == 0

\* what the composer may hold, and what onClick={() => sendMessage(s)} passes
InputValues == {"", "  ", " hi "}
SuggestionTexts == {"careers?"}
\* sendMessage() without an argument
NoText == "undefined"

\* String.prototype.trim on the texts above
Trim(t) == CASE t = " hi " -> "hi" [] t = "  " -> "" [] OTHER -> t

\* assistantContent after n chunks were decoded
ChunkText(n) == <<"", "a", "ab", "abc", "abcd">>[n + 1]

ErrorText == "Sorry, I couldn't reach the AI service right now."
FallbackText == "Could you please rephrase your question?"
ReplyText == "reply"

\* a Message; error stands for the optional member error (FALSE: not there)
Msg(id, role, content, error) ==
  [id |-> id, role |-> role, content |-> content, error |-> error]

\* "draft-" + userMsg.id
DraftId(userId) == 0 - userId

\* summarizeTitle(messages), for contents of at most 50 characters
summarizeTitle(messages) ==
  LET users == SelectSeq(messages, LAMBDA m : m.role = "user")
  IN IF users = <<>> THEN "New conversation" ELSE users[1].content

\* conversations.find((c) => c.id === id) || null
FindConversation(convs, id) ==
  IF \E i \in 1..Len(convs) : convs[i].id = id
    THEN Some(convs[CHOOSE i \in 1..Len(convs) : convs[i].id = id])
    ELSE Null

\* const activeConversation = useMemo(...)
activeConversation == FindConversation(conversations, activeId)

\* a map that updates the conversation active now, whatever id the caller
\* closed over
MapConversation_Active(prev, id, updated) ==
  [i \in 1..Len(prev) |-> IF prev[i].id = activeId THEN updated[i] ELSE prev[i]]

\* prev.map((c) => (c.id === id ? updater(c) : c)) with the updater's result
\* given per position (updated[i] is updater(prev[i]))
MapConversation(prev, id, updated) ==
  [i \in 1..Len(prev) |-> IF prev[i].id = id THEN updated[i] ELSE prev[i]]

\* updater of sendMessage: append the user message, title from the first one
WithUserMessage(c, userMsg) ==
  [c EXCEPT !.messages = Append(@, userMsg),
            !.title = IF Len(c.messages) = 0 THEN summarizeTitle(<<userMsg>>) ELSE @]

\* updater of the read loop: replace or append the draft
WithDraft(c, draft) ==
  [c EXCEPT !.messages = Append(SelectSeq(@, LAMBDA m : m.id # draft.id), draft)]

\* updater after the loop: the draft gets a permanent id
Finalized(c, draftId, newId) ==
  [c EXCEPT !.messages =
     [i \in 1..Len(@) |-> IF @[i].id = draftId THEN [@[i] EXCEPT !.id = newId] ELSE @[i]]]

\* updater of the JSON branch and of the catch block
WithAppended(c, m) == [c EXCEPT !.messages = Append(@, m)]

\* JSON.stringify of a Message: a member without a value is left out
JsonOfMessage(m) ==
  [k \in (IF m.error THEN {"id", "role", "content", "error"}
          ELSE {"id", "role", "content"}) |-> m[k]]

\* the Message read back; a member that is not there reads as not set
MessageOfJson(j) ==
  [id |-> j["id"], role |-> j["role"], content |-> j["content"],
   error |-> IF "error" \in DOMAIN j THEN j["error"] ELSE FALSE]

\* JSON.stringify(conversations) / JSON.parse(saved)
JsonOfConversations(convs) ==
  [i \in 1..Len(convs) |->
     [id |-> convs[i].id, title |-> convs[i].title,
      messages |-> [k \in 1..Len(convs[i].messages) |->
                      JsonOfMessage(convs[i].messages[k])]]]
ConversationsOfJson(j) ==
  [i \in 1..Len(j) |->
     [id |-> j[i].id, title |-> j[i].title,
      messages |-> [k \in 1..Len(j[i].messages) |-> MessageOfJson(j[i].messages[k])]]]

\* localStorage without the two chat entries
NoChatStorage == [conversations |-> Null, activeId |-> NoId]

\* the persist effect: the list is always written, activeId only if set
ChatPersisted(st, convs, aid) ==
  [conversations |-> Some(JsonOfConversations(convs)),
   activeId |-> IF aid # NoId THEN aid ELSE st.activeId]

\* the conversation newConversation builds
FreshConversation(id) == [id |-> id, title |-> "New conversation", messages |-> <<>>]

\* first render of the component
ChatConstructed ==
  /\ conversations = <<>> /\ activeId = NoId /\ input = ""
  /\ chat_loading = FALSE /\ typing = FALSE
  /\ chat_req = Null
  /\ chat_pending = "mount"

InitChat ==
  /\ ChatConstructed
  /\ chat_storage = NoChatStorage
  /\ nextUid = 1
  /\ chat_op = "init" /\ chat_call = Null

ChatFrame == UNCHANGED <<mounted, quizVars, secVars, mapVars, trkVars, evalVars, recVars>>

\* a fresh value of uid() is left (one is kept back for the request awaited)
UidLeft == nextUid + (IF chat_req # Null THEN 1 ELSE 0) <= MaxUid

\* handlers and request callbacks run on a render whose effects have run
ChatReady == mounted = "ChatbotInterface" /\ chat_pending = "none"

\* the effects of the first render, and the render they cause with its own
\* effects: hydration (setConversations(parsed), setActiveId(...)); persist of
\* the first render's state; ensure-one, which sees the first render's empty
\* list and calls newConversation(); then persist of the resulting state
ChatMountEffects ==
  /\ mounted = "ChatbotInterface" /\ chat_pending = "mount"
  /\ LET parsed == IF chat_storage.conversations = Null THEN <<>>
                   ELSE ConversationsOfJson(ValueOf(chat_storage.conversations))
         conv == FreshConversation(nextUid)
     IN /\ conversations' = <<conv>> \o parsed
        /\ activeId' = conv.id
        /\ chat_storage' = ChatPersisted(chat_storage, conversations', activeId')
  /\ input' = ""
  /\ nextUid' = nextUid + 1
  /\ chat_pending' = "none"
  /\ chat_op' = "mountEffects"
  /\ UNCHANGED <<chat_loading, typing, chat_req, chat_call>>
  /\ ChatFrame

\* the effects after an update: persist; ensure-one (newConversation() when
\* nothing is active and the list is empty) and the persist that follows it
ChatEffects ==
  /\ mounted = "ChatbotInterface" /\ chat_pending = "update"
  /\ IF activeConversation = Null /\ Len(conversations) = 0
       THEN /\ conversations' = <<FreshConversation(nextUid)>>
            /\ activeId' = nextUid
            /\ input' = ""
            /\ nextUid' = nextUid + 1
       ELSE UNCHANGED <<conversations, activeId, input, nextUid>>
  /\ chat_storage' = ChatPersisted(chat_storage, conversations', activeId')
  /\ chat_pending' = "none"
  /\ chat_op' = "effects"
  /\ UNCHANGED <<chat_loading, typing, chat_req, chat_call>>
  /\ ChatFrame

\* Textarea onChange={(e) => setInput(e.target.value)}
SetInput(v) ==
  /\ ChatReady /\ v # input
  /\ input' = v
  /\ chat_op' = "setInput" /\ chat_call' = Null
  /\ UNCHANGED <<conversations, activeId, chat_loading, typing, chat_storage,
                 chat_req, nextUid, chat_pending>>
  /\ ChatFrame

\* const canSend = input.trim().length > 0 && !loading
canSend == Trim(input) # "" /\ ~chat_loading

\* the controls that call sendMessage: Send button and Enter (if canSend)
\* without an argument, a suggestion button (shown for an active conversation
\* without messages) with its text
SendOffered(text) ==
  IF text = NoText THEN canSend
  ELSE activeConversation # Null /\ Len(ValueOf(activeConversation).messages) = 0

\* sendMessage(text)
SendMessage(text) ==
  /\ mounted = "ChatbotInterface"
  /\ SendOffered(text)
  /\ nextUid + 1 <= MaxUid
  /\ LET content == Trim(IF text = NoText THEN input ELSE text)
         userMsg == Msg(nextUid, "user", content, FALSE)
     IN /\ chat_call' = Some([content |-> content,
                              active |-> activeConversation # Null,
                              loading |-> chat_loading])
        /\ IF content = "" \/ activeConversation = Null \/ chat_loading
             THEN UNCHANGED <<conversations, input, chat_loading, typing, chat_req,
                              nextUid, chat_pending>>
             ELSE /\ chat_loading' = TRUE
                  /\ typing' = TRUE
                  /\ conversations' =
                       MapConversation(conversations, activeId,
                                       [i \in DOMAIN conversations |-> WithUserMessage(conversations[i], userMsg)])
                  /\ input' = ""
                  /\ chat_req' = Some([conv |-> activeId, user |-> userMsg,
                                       before |-> ValueOf(activeConversation).messages,
                                       stage |-> "fetch", chunks |-> 0])
                  /\ nextUid' = nextUid + 1
                  /\ chat_pending' = "update"
  /\ chat_op' = "sendMessage"
  /\ UNCHANGED <<activeId, chat_storage>>
  /\ ChatFrame

\* the request is awaited at the given stage
Awaited(stage) == ChatReady /\ chat_req # Null /\ ValueOf(chat_req).stage = stage

\* finally { setTyping(false); setLoading(false) }, with the list the branch
\* taken produced
Completed(convs, op) ==
  /\ conversations' = convs
  /\ chat_loading' = FALSE /\ typing' = FALSE
  /\ chat_req' = Null
  /\ chat_pending' = "update"
  /\ chat_op' = op /\ chat_call' = Null
  /\ UNCHANGED <<activeId, input, chat_storage>>
  /\ ChatFrame

\* a catch block that appends nothing
Caught_Silent(op) ==
  /\ nextUid' = nextUid
  /\ Completed(conversations, op)

\* the catch block: an error-flagged assistant message is appended through
\* updateActiveConversation (the activeId of the render sendMessage ran in)
Caught(op) ==
  /\ nextUid' = nextUid + 1
  /\ Completed(MapConversation(conversations, ValueOf(chat_req).conv,
                 [i \in DOMAIN conversations |-> WithAppended(conversations[i], Msg(nextUid, "assistant", ErrorText, TRUE))]),
               op)

\* fetch rejects, or resolves with !res.ok (throw new Error)
ChatFetchFailed(kind) ==
  /\ Awaited("fetch")
  /\ Caught(kind)

\* fetch resolved with res.ok and a body: the read loop starts
ChatStreamOpened ==
  /\ Awaited("fetch")
  /\ chat_req' = Some([ValueOf(chat_req) EXCEPT !.stage = "stream"])
  /\ chat_op' = "streamOpened" /\ chat_call' = Null
  /\ UNCHANGED <<conversations, activeId, input, chat_loading, typing, chat_storage,
                 nextUid, chat_pending>>
  /\ ChatFrame

\* reader.read() resolved with a value: the draft is replaced or appended
ChatStreamChunk ==
  /\ Awaited("stream") /\ ValueOf(chat_req).chunks < MaxChunks
  /\ LET req == ValueOf(chat_req)
         draft == Msg(DraftId(req.user.id), "assistant", ChunkText(req.chunks + 1), FALSE)
     IN /\ conversations' = MapConversation(conversations, req.conv,
                                            [i \in DOMAIN conversations |-> WithDraft(conversations[i], draft)])
        /\ chat_req' = Some([req EXCEPT !.chunks = @ + 1])
  /\ chat_pending' = "update"
  /\ chat_op' = "streamChunk" /\ chat_call' = Null
  /\ UNCHANGED <<activeId, input, chat_loading, typing, chat_storage, nextUid>>
  /\ ChatFrame

\* reader.read() resolved with done: the draft, if there is one in the
\* conversation, gets id uid()
ChatStreamDone ==
  /\ Awaited("stream")
  /\ LET req == ValueOf(chat_req)
         target == FindConversation(conversations, req.conv)
         hasDraft == /\ target # Null
                     /\ \E i \in 1..Len(ValueOf(target).messages) :
                          ValueOf(target).messages[i].id = DraftId(req.user.id)
     IN /\ nextUid' = IF hasDraft THEN nextUid + 1 ELSE nextUid
        /\ Completed(MapConversation(conversations, req.conv,
                       [i \in DOMAIN conversations |-> Finalized(conversations[i], DraftId(req.user.id), nextUid)]),
                     "streamDone")

\* reader.read() rejects
ChatStreamFailed ==
  /\ Awaited("stream")
  /\ Caught("streamFailed")

\* JsonKinds: the body res.json() resolves with, when res.body is null
\*   "message": { message: <non-blank string> }, "blank": anything else
\* the reply the JSON branch builds
JsonReply(kind) == IF kind = "message" THEN ReplyText ELSE FallbackText

\* res.ok without a body: const data = await res.json()
ChatJsonResolved(kind) ==
  /\ Awaited("fetch")
  /\ nextUid' = nextUid + 1
  /\ Completed(MapConversation(conversations, ValueOf(chat_req).conv,
                 [i \in DOMAIN conversations |-> WithAppended(conversations[i], Msg(nextUid, "assistant", JsonReply(kind), FALSE))]),
               "jsonResolved")

\* res.ok without a body, res.json() rejects
ChatJsonFailed ==
  /\ Awaited("fetch")
  /\ Caught("jsonFailed")

\* newConversation: the New conversation button
NewConversation ==
  /\ ChatReady /\ UidLeft
  /\ conversations' = <<FreshConversation(nextUid)>> \o conversations
  /\ activeId' = nextUid
  /\ input' = ""
  /\ nextUid' = nextUid + 1
  /\ chat_pending' = "update"
  /\ chat_op' = "newConversation" /\ chat_call' = Null
  /\ UNCHANGED <<chat_loading, typing, chat_storage, chat_req>>
  /\ ChatFrame

\* history entry onClick: setActiveId(c.id)
SelectConversation(i) ==
  /\ ChatReady /\ i \in 1..Len(conversations)
  /\ conversations[i].id # activeId
  /\ activeId' = conversations[i].id
  /\ chat_pending' = "update"
  /\ chat_op' = "selectConversation" /\ chat_call' = Null
  /\ UNCHANGED <<conversations, input, chat_loading, typing, chat_storage, chat_req,
                 nextUid>>
  /\ ChatFrame

\* deleteConversation(id)
DeleteConversation(i) ==
  /\ ChatReady /\ i \in 1..Len(conversations)
  /\ Len(conversations) = 1 => UidLeft
  /\ LET id == conversations[i].id
         others == SelectSeq(conversations, LAMBDA c : c.id # id)
     IN /\ conversations' = others
        /\ activeId' = IF activeId = id
                         THEN (IF others = <<>> THEN NoId ELSE others[1].id)
                         ELSE activeId
  /\ chat_pending' = "update"
  /\ chat_op' = "deleteConversation" /\ chat_call' = Null
  /\ UNCHANGED <<input, chat_loading, typing, chat_storage, chat_req, nextUid>>
  /\ ChatFrame

\* clearConversation: enabled for an active conversation with messages
ClearConversation ==
  /\ ChatReady /\ activeConversation # Null
  /\ Len(ValueOf(activeConversation).messages) > 0
  /\ conversations' = MapConversation(conversations, activeId,
                        [i \in DOMAIN conversations |-> [conversations[i] EXCEPT !.messages = <<>>,
                                             !.title = "New conversation"]])
  /\ chat_pending' = "update"
  /\ chat_op' = "clearConversation" /\ chat_call' = Null
  /\ UNCHANGED <<activeId, input, chat_loading, typing, chat_storage, chat_req, nextUid>>
  /\ ChatFrame

\* the page is loaded again: the component is constructed anew over the
\* storage left behind; a request that was awaited is gone with the old page
ChatReload ==
  /\ ChatReady /\ nextUid <= MaxUid
  /\ conversations' = <<>> /\ activeId' = NoId /\ input' = ""
  /\ chat_loading' = FALSE /\ typing' = FALSE
  /\ chat_req' = Null
  /\ chat_pending' = "mount"
  /\ chat_op' = "reload"
  /\ chat_call' = Some([stored |-> chat_storage])
  /\ UNCHANGED <<chat_storage, nextUid>>
  /\ ChatFrame

NextChat ==
  \/ ChatMountEffects
  \/ ChatEffects
  \/ \E v \in InputValues : SetInput(v)
  \/ \E text \in {NoText} \cup SuggestionTexts : SendMessage(text)
  \/ \E kind \in {"fetchRejected", "fetchNotOk"} : ChatFetchFailed(kind)
  \/ ChatStreamOpened
  \/ ChatStreamChunk
  \/ ChatStreamDone
  \/ ChatStreamFailed
  \/ \E kind \in {"message", "blank"} : ChatJsonResolved(kind)
  \/ ChatJsonFailed
  \/ NewConversation
  \/ \E i \in 1..MaxUid : SelectConversation(i)
  \/ \E i \in 1..MaxUid : DeleteConversation(i)
  \/ ClearConversation
  \/ ChatReload

\* ========================================================================
\* mockEvaluate
\* ========================================================================

\* the keys of buckets, in the order of the object literal (Object.keys)
Streams == <<"Arts", "Science", "Commerce", "Vocational">>

\* the keywords tested for each stream
ScienceWords == { <<"l","o","g","i","c">>, <<"m","a","t","h">>,
                  <<"s","c","i","e","n","c","e">> }
CommerceWords == { <<"b","u","s","i","n","e","s","s">>, <<"f","i","n","a","n","c","e">>,
                   <<"c","o","m","m","e","r","c","e">> }
ArtsWords == { <<"c","r","e","a","t","i","v","e">>, <<"a","r","t">>,
               <<"d","e","s","i","g","n">>, <<"l","a","n","g","u","a","g","e">> }

\* answer values: one keyword in capitals, two keywords of different streams,
\* a keyword inside another word, no keyword, the empty string
AnswerTexts ==
  { <<"L","o","g","i","c">>,
    <<"m","a","t","h"," ","a","r","t">>,
    <<"d","e","s","i","g","n"," ","f","i","n","a","n","c","e">>,
    <<"p","a","r","t","y">>,
    <<"w","e","l","d","i","n","g">>,
    <<>> }

\* the AnswerMaps handed to mockEvaluate: any questions answered, any left out
EvalAnswerMaps ==
  UNION { [ks -> AnswerTexts] : ks \in SUBSET (1..MaxAnswers) }

\* the if / else-if chain with the commerce test after the arts test
BucketOf_ArtsFirst(val) ==
  LET v == toLowerCase(val) IN
    IF \E w \in ScienceWords : includes(v, w) THEN "Science"
    ELSE IF \E w \in ArtsWords : includes(v, w) THEN "Arts"
    ELSE IF \E w \in CommerceWords : includes(v, w) THEN "Commerce"
    ELSE "Vocational"

\* the bucket the forEach body adds to
BucketOf(val) ==
  LET v == toLowerCase(val) IN
    IF \E w \in ScienceWords : includes(v, w) THEN "Science"
    ELSE IF \E w \in CommerceWords : includes(v, w) THEN "Commerce"
    ELSE IF \E w \in ArtsWords : includes(v, w) THEN "Arts"
    ELSE "Vocational"

\* the amount the forEach body adds
Increment(bucket) == IF bucket = "Vocational" THEN 1 ELSE 2

\* Object.values(answers): integer-like keys come in ascending order
RECURSIVE ObjectValues(_)
ObjectValues(a) ==
  IF DOMAIN a = {} THEN <<>>
  ELSE LET k == CHOOSE x \in DOMAIN a : \A y \in DOMAIN a : x <= y
       IN <<a[k]>> \o ObjectValues([y \in DOMAIN a \ {k} |-> a[y]])

\* Object.values(answers).forEach(...) from the buckets b on
RECURSIVE Tally(_, _)
Tally(vals, b) ==
  IF vals = <<>> THEN b
  ELSE LET s == BucketOf(Head(vals))
       IN Tally(Tail(vals), [b EXCEPT ![s] = @ + Increment(s)])

\* Array.prototype.sort with (a, b) => buckets[b] - buckets[a]: stable, so a
\* key goes after the keys that are not smaller
RECURSIVE InsertKey(_, _, _)
InsertKey(sortedKeys, key, b) ==
  IF sortedKeys = <<>> THEN <<key>>
  ELSE IF b[key] - b[Head(sortedKeys)] > 0 THEN <<key>> \o sortedKeys
  ELSE <<Head(sortedKeys)>> \o InsertKey(Tail(sortedKeys), key, b)

\* a sort by ascending score
RECURSIVE SortKeys_Ascending(_, _)
SortKeys_Ascending(keys, b) ==
  IF keys = <<>> THEN <<>>
  ELSE LET rest == SortKeys_Ascending(Tail(keys), b)
           less == SelectSeq(rest, LAMBDA k : b[k] < b[Head(keys)])
           more == SelectSeq(rest, LAMBDA k : b[k] >= b[Head(keys)])
       IN less \o <<Head(keys)>> \o more

RECURSIVE SortKeys(_, _)
SortKeys(keys, b) ==
  IF keys = <<>> THEN <<>>
  ELSE InsertKey(SortKeys(SubSeq(keys, 1, Len(keys) - 1), b), keys[Len(keys)], b)

\* mockEvaluate(answers): what the promise resolves with; the summary is kept
\* as the stream names it interpolates
mockEvaluate(a) ==
  LET buckets == Tally(ObjectValues(a),
                       [s \in {Streams[i] : i \in 1..Len(Streams)} |-> 0])
      sorted == SortKeys(Streams, buckets)
  IN [streamScores |-> buckets,
      summary |-> <<sorted[1], sorted[2]>>,
      recommended |-> SubSeq(sorted, 1, 2)]

InitEval == ev_answers = <<>> /\ ev_result = Null

EvalFrame == UNCHANGED <<mounted, quizVars, secVars, mapVars, trkVars, chatVars, recVars>>

\* a caller hands an AnswerMap over: the promise is pending
EvalCall(a) ==
  /\ mounted = "mockEvaluate"
  /\ ev_answers' = a
  /\ ev_result' = Null
  /\ EvalFrame

\* the promise resolves (after the 1200 ms timer)
EvalResolved ==
  /\ mounted = "mockEvaluate" /\ ev_result = Null
  /\ ev_result' = Some(mockEvaluate(ev_answers))
  /\ UNCHANGED ev_answers
  /\ EvalFrame

NextEval ==
  \/ \E a \in EvalAnswerMaps : EvalCall(a)
  \/ EvalResolved

\* ========================================================================
\* CareerRecommendations
\* ========================================================================
\* The query, bookmarks and comparison set are left out; titles and streams
\* are abbreviated, in lower case.

\* a recommendation: id, title, stream, fitScore
RecItem(id, title, stream, fit) ==
  [id |-> id, title |-> title, stream |-> stream, fitScore |-> fit]

\* defaultItems (fit 92, 84, 76, in this order)
defaultItems ==
  << RecItem("eng-ai", <<"c", "s">>, <<"e", "n", "g">>, 92),
     RecItem("design-ux", <<"u", "x">>, <<"d", "e", "s">>, 84),
     RecItem("commerce-fin", <<"f", "i", "n">>, <<"c", "o", "m">>, 76) >>

\* arrays a caller may pass as items: none, in ascending fit order, two
\* records of one title and stream
ItemLists ==
  { defaultItems,
    <<>>,
    << defaultItems[3], defaultItems[1], defaultItems[2] >>,
    << RecItem("a", <<"l", "a", "w">>, <<"a", "r", "t">>, 70),
       RecItem("b", <<"l", "a", "w">>, <<"a", "r", "t">>, 90) >> }

\* the values of the minimum-fit select, after Number(v)
MinFitInputs == {0, 60, 70, 80, 90}
SortKeys3 == {"fit-desc", "name-asc", "stream-asc"}

\* the position of a letter in the collation order
LetterRank(ch) == CHOOSE k \in 1..Len(LowerChars) : LowerChars[k] = ch

\* String.prototype.localeCompare on lower-case words: negative, 0, positive
RECURSIVE localeCompare(_, _)
localeCompare(a, b) ==
  IF a = <<>> /\ b = <<>> THEN 0
  ELSE IF a = <<>> THEN -1
  ELSE IF b = <<>> THEN 1
  ELSE IF Head(a) # Head(b) THEN LetterRank(Head(a)) - LetterRank(Head(b))
  ELSE localeCompare(Tail(a), Tail(b))

\* the comparators of the sort switch
RecCompare(a, b, key) ==
  CASE key = "fit-desc" -> b.fitScore - a.fitScore
    [] key = "name-asc" -> localeCompare(a.title, b.title)
    [] key = "stream-asc" ->
         IF localeCompare(a.stream, b.stream) # 0 THEN localeCompare(a.stream, b.stream)
         ELSE b.fitScore - a.fitScore

\* Array.prototype.sort (stable) with one of the comparators
RECURSIVE RecInsert(_, _, _)
RecInsert(sorted, x, key) ==
  IF sorted = <<>> THEN <<x>>
  ELSE IF RecCompare(Head(sorted), x, key) <= 0
         THEN <<Head(sorted)>> \o RecInsert(Tail(sorted), x, key)
         ELSE <<x>> \o sorted
RECURSIVE RecSort(_, _)
RecSort(list, key) ==
  IF list = <<>> THEN <<>>
  ELSE RecInsert(RecSort(SubSeq(list, 1, Len(list) - 1), key), list[Len(list)], key)

\* the filtered memo: a copy of items, filtered and sorted
RecFiltered(items, streams, minFit, key) ==
  LET byStream == IF streams # <<>>
                    THEN SelectSeq(items, LAMBDA i : i.stream \in RangeOf(streams))
                    ELSE items
      byFit == IF minFit # Null
                 THEN SelectSeq(byStream, LAMBDA i : i.fitScore >= ValueOf(minFit))
                 ELSE byStream
  IN RecSort(byFit, key)

\* the header's Top match: items.sort((a, b) => b.fitScore - a.fitScore),
\* which sorts the array it is called on and returns it
HeaderSorted(items) == RecSort(items, "fit-desc")

InitRec ==
  /\ rec_given = defaultItems /\ rec_items = defaultItems
  /\ rec_rendered = FALSE
  /\ rec_sort = "fit-desc" /\ rec_minFit = Null /\ rec_streams = <<>>
  /\ rec_filtered = <<>> /\ rec_op = "init"

RecFrame == UNCHANGED <<mounted, quizVars, secVars, mapVars, trkVars, chatVars, evalVars>>

\* one render: the memo is recomputed from the array as it is, then the
\* header is evaluated
RecRender(streams, minFit, key) ==
  /\ rec_filtered' = RecFiltered(rec_items, streams, minFit, key)
  /\ rec_items' = HeaderSorted(rec_items)
  /\ rec_streams' = streams /\ rec_minFit' = minFit /\ rec_sort' = key
  /\ rec_rendered' = TRUE
  /\ UNCHANGED rec_given
  /\ RecFrame

\* the first render, with the array the caller passes
RecMount(items) ==
  /\ mounted = "CareerRecommendations" /\ ~rec_rendered
  /\ rec_given' = items /\ rec_filtered' = RecFiltered(items, <<>>, Null, "fit-desc")
  /\ rec_items' = HeaderSorted(items)
  /\ rec_rendered' = TRUE
  /\ rec_op' = "mount"
  /\ UNCHANGED <<rec_sort, rec_minFit, rec_streams>>
  /\ RecFrame

RecReady == mounted = "CareerRecommendations" /\ rec_rendered

\* onValueChange={(v) => setSort(v as SortKey)}
RecSetSort(v) ==
  /\ RecReady /\ rec_op' = "setSort"
  /\ RecRender(rec_streams, rec_minFit, v)

\* onValueChange={(v) => setMinFit(Number(v))}
RecSetMinFit(v) ==
  /\ RecReady /\ rec_op' = "setMinFit"
  /\ RecRender(rec_streams, Some(v), rec_sort)

\* a stream button: prev.includes(s) ? prev.filter((x) => x !== s) : [...prev, s]
RecToggleStream(st) ==
  /\ RecReady /\ st \in {rec_items[i].stream : i \in 1..Len(rec_items)}
  /\ rec_op' = "toggleStream"
  /\ RecRender(IF st \in RangeOf(rec_streams)
                 THEN SelectSeq(rec_streams, LAMBDA x : x # st)
                 ELSE Append(rec_streams, st),
               rec_minFit, rec_sort)

\* clearFilters (Reset)
RecClearFilters ==
  /\ RecReady /\ rec_op' = "clearFilters"
  /\ RecRender(<<>>, Null, "fit-desc")

NextRec ==
  \/ \E items \in ItemLists : RecMount(items)
  \/ \E v \in SortKeys3 : RecSetSort(v)
  \/ \E v \in MinFitInputs : RecSetMinFit(v)
  \/ \E it \in UNION {RangeOf(l) : l \in ItemLists} : RecToggleStream(it.stream)
  \/ RecClearFilters

\* ========================================================================
\* Specifications
\* ========================================================================

Components == {"AptitudeQuiz", "AptitudeQuizSection", "CollegesMapSection",
               "ScholarshipsTrackerSection", "ChatbotInterface", "mockEvaluate",
               "CareerRecommendations"}

\* the component m is constructed; the others stay as constructed
InitOf(m) ==
  /\ mounted = m
  /\ IF m = "AptitudeQuiz" THEN InitQuiz ELSE IdleQuiz
  /\ InitSection
  /\ InitMap
  /\ InitTracker
  /\ InitChat
  /\ InitEval
  /\ InitRec

Init == \E m \in Components : InitOf(m)

Next ==
  \/ NextQuiz \/ NextSection \/ NextMap \/ NextTracker \/ NextFilters \/ NextChat
  \/ NextEval \/ NextRec

Spec == Init /\ [][Next]_vars

\* one component at a time
SpecQuiz == InitOf("AptitudeQuiz") /\ [][NextQuiz]_vars
SpecSection == InitOf("AptitudeQuizSection") /\ [][NextSection]_vars
SpecMap == InitOf("CollegesMapSection") /\ [][NextMap]_vars
SpecTracker == InitOf("ScholarshipsTrackerSection") /\ [][NextTracker]_vars
SpecChat == InitOf("ChatbotInterface") /\ [][NextChat]_vars

\* the scoring fallback of AptitudeQuiz, over every AnswerMap
SpecEvaluate == InitOf("mockEvaluate") /\ [][NextEval]_vars

\* the components that filter and sort a catalog they are given
SpecCatalogs ==
  /\ InitOf("CareerRecommendations") \/ InitOf("ScholarshipsTrackerSection")
  /\ [][NextRec \/ NextFilters]_vars

\* the filter controls of ScholarshipsTrackerSection
SpecFilters == InitOf("ScholarshipsTrackerSection") /\ [][NextFilters]_vars

\* both quiz components
SpecQuizzes ==
  /\ InitOf("AptitudeQuiz") \/ InitOf("AptitudeQuizSection")
  /\ [][NextQuiz \/ NextSection]_vars

\* ========================================================================
\* Properties
\* ========================================================================

\* the phase changes the quiz flow is said to make
ClaimedPhaseEdges ==
  { <<"quiz", "review">>, <<"review", "submitting">>, <<"submitting", "result">>,
    <<"result", "quiz">>, <<"submitting", "review">>, <<"review", "quiz">> }

\* C1 (as stated): the phase of AptitudeQuiz only changes along quiz->review,
\* review->submitting, submitting->result, result->quiz, submitting->review
\* and review->quiz; submitting is never entered directly from quiz.
C1_OnlyClaimedEdges ==
  [][phase' # phase => <<phase, phase'>> \in ClaimedPhaseEdges]_vars

\* C1 (amended): the phase only changes along the edges above, or from quiz
\* to submitting when the timer effect finds the time elapsed with
\* autoSubmitOnTime set; submitting is entered from quiz in no other way.
C1_PhaseEdges ==
  [][phase' # phase =>
       \/ <<phase, phase'>> \in ClaimedPhaseEdges
       \/ /\ phase = "quiz" /\ phase' = "submitting"
          /\ autoSubmitOnTime /\ remaining = 0 /\ qOp' = "timeUpSubmit"]_vars

C1_Witness ==
  phase = "submitting" /\ phaseBefore = "quiz" /\ qOp = "timeUpSubmit"

\* C2: when the scoring call of a submission rejects, the phase becomes
\* review, the AnswerMap is the one the submission started with, and no
\* result is stored.
C2_FailureKeepsAnswers ==
  [][(inflight # Null /\ qOp' = "submitRejected") =>
       /\ phase' = "review"
       /\ answers' = ValueOf(inflight)
       /\ results' = Null]_vars

C2_Witness ==
  /\ qOp = "submitRejected" /\ phase = "review"
  /\ KeysOf(answers) # {} /\ results = Null

\* C3: right after a retake (handleRetake, resetQuiz) the AnswerMap is empty,
\* the cursor is 0 and no result is stored; AptitudeQuiz also has the
\* remaining time back at durationSec and the phase quiz.
C3_RetakeResets ==
  /\ qOp = "handleRetake" =>
       /\ KeysOf(answers) = {} /\ index = 0 /\ results = Null
       /\ remaining = durationSec /\ phase = "quiz"
  /\ sec_op = "resetQuiz" =>
       /\ \A q \in QuestionIds : sec_answers[q] = None
       /\ sec_current = 0 /\ sec_result = Null

C3_Witness ==
  qOp = "handleRetake" /\ durationSec > 0 /\ KeysOf(answers) = {} /\ phase = "quiz"

\* C4: once every issued colleges request has resolved after a filter change
\* superseded an outstanding request, the list and the error shown are those
\* of the request issued last.
C4_LatestRequestWins ==
  (superseded /\ ~AnyPending(requests)) =>
     LET last == requests[Len(requests)] IN
       IF last.status = "ok"
         THEN colleges = CollegesFor(last) /\ map_error = None
         ELSE map_error # None

\* C5: 0 <= remaining <= durationSec always; a tick lowers remaining by
\* exactly 1 and happens only while it is positive; remaining does not change
\* while the phase is submitting or result.
C5_RemainingBounded ==
  /\ [](0 <= remaining /\ remaining <= durationSec)
  /\ [][/\ qOp' = "tick" => remaining > 0 /\ remaining' = remaining - 1
        /\ (phase \in {"submitting", "result"} /\ phase' \in {"submitting", "result"})
           => remaining' = remaining]_vars

C5_Witness == qOp = "tick" /\ remaining = 0 /\ durationSec > 0

\* C6: when the remaining time has reached 0 in phase quiz or review, the
\* timer effect starts a submission of the current AnswerMap if
\* autoSubmitOnTime is set and otherwise sets the phase to review; no settled
\* state has the time elapsed and the phase still quiz (or review, with
\* autoSubmitOnTime).
C6_TimeUp ==
  /\ [][(effectPending /\ isMounted /\ remaining = 0 /\ phase \in {"quiz", "review"}) =>
          IF autoSubmitOnTime
            THEN phase' = "submitting" /\ inflight' = Some(answers) /\ answers' = answers
            ELSE phase' = "review"]_vars
  /\ []((isMounted /\ ~effectPending /\ remaining = 0) =>
          /\ phase # "quiz"
          /\ autoSubmitOnTime => phase # "review")

C6_Witness ==
  /\ qOp = "timeUpSubmit" /\ durationSec > 0 /\ remaining = 0
  /\ phase = "submitting" /\ inflight = Some(answers)

\* C7: the question cursor of both quiz components stays within [0, total-1].
C7_CursorInRange ==
  /\ index \in 0..(total - 1)
  /\ sec_current \in 0..(total - 1)

C7_Witness == qOp = "goNext" /\ index = total - 1 /\ phaseBefore = "quiz"

\* C8 (as stated): with allowSkip = false no operation moves the cursor to a
\* higher index while the question at the current index has no answer.
C8_NoForwardMove ==
  [][(~allowSkip /\ ~Answered(answers, QuestionId(index))) => index' <= index]_vars

\* C8 (amended): with allowSkip = false, goNext (Next button, ArrowRight)
\* never moves the cursor to a higher index while the question at the current
\* index has no answer; only jumpTo does.
C8_NextNeedsAnswer ==
  [][(~allowSkip /\ ~Answered(answers, QuestionId(index)) /\ index' > index)
       => qOp' = "jumpTo"]_vars

C8_Witness ==
  /\ qOp = "goNext" /\ ~allowSkip /\ index < total - 1
  /\ ~Answered(answers, QuestionId(index))

\* C9: every id with a TrackedItem has been in the saved-id set.
C9_TrackedWasSaved == DOMAIN tracked \subseteq everSaved

\* the catalog record with the given id
ScholarshipOf(id) == CHOOSE s \in RangeOf(Catalog) : s.id = id

\* C10: right after toggleSave saved an item for the first time its
\* TrackedItem has status planning, the reminder suggested for its deadline
\* and an all-unchecked checklist over its declared (or the default) documents.
C10_FirstSaveSeeds ==
  firstSave # None =>
    /\ firstSave \in DOMAIN tracked
    /\ LET s == ScholarshipOf(firstSave)
           t == tracked[firstSave]
       IN /\ t.status = "planning"
          /\ t.reminderDate = suggestReminder(s.deadline, now)
          /\ t.checklist = checklistDocs(s)

\* C11: toggleSave on a saved item removes its id from the saved-id set and
\* leaves the tracked map as it is; toggleSave on an unsaved item that has a
\* TrackedItem (a re-save) adds the id and leaves that TrackedItem -- status,
\* reminder date, checklist, savedAt -- as it is.
C11_UnsaveResaveKeepsItem ==
  [][\A id \in ScholarshipIds :
       /\ (trk_op' = "unsave" /\ id \in savedIds /\ id \notin savedIds')
            => /\ savedIds' = savedIds \ {id}
               /\ tracked' = tracked
       /\ (trk_op' = "save" /\ id \notin savedIds /\ id \in savedIds'
             /\ id \in DOMAIN tracked)
            => /\ savedIds' = savedIds \cup {id}
               /\ id \in DOMAIN tracked' /\ tracked'[id] = tracked[id]]_vars

\* a re-save has just kept an item whose status and checklist had been edited
C11_Witness ==
  /\ trk_op = "save" /\ firstSave = None /\ savedIds = {"s1"}
  /\ "s1" \in DOMAIN tracked
  /\ tracked["s1"].status = "submitted"
  /\ "Transcript" \in DOMAIN tracked["s1"].checklist
  /\ tracked["s1"].checklist["Transcript"]
  /\ tracked["s1"].savedAt < now

\* C12: the entries stored under the saved-ids key and the tracked-items key
\* always read back as the in-memory saved-id set and tracked map, and a
\* reload leaves the saved-id set, the tracked map and both entries as they
\* were before it.
C12_StorageMirrorsState ==
  /\ [](/\ SavedOfJson(storage.saved) = savedIds
        /\ TrackedOfJson(storage.tracked) = tracked
        /\ storage = Persisted(savedIds, tracked))
  /\ [][trk_op' = "reload" =>
          /\ savedIds' = savedIds /\ tracked' = tracked
          /\ storage' = storage]_vars

\* a reload has restored a saved item without a reminder-date member, a saved
\* item with a null reminder date and an unsaved but tracked item
C12_Witness ==
  /\ trk_op = "reload" /\ savedIds = {"s2"}
  /\ DOMAIN tracked = {"s1", "s2"}
  /\ tracked["s1"].reminderDate = UndefinedDate
  /\ tracked["s2"].reminderDate = NullDate
  /\ tracked["s2"].status = "submitted"

\* the steps in which a sendMessage call returns
ChatCompletionOps ==
  {"fetchRejected", "fetchNotOk", "streamDone", "streamFailed", "jsonResolved",
   "jsonFailed"}
ChatFailureOps == {"fetchRejected", "fetchNotOk", "streamFailed", "jsonFailed"}

\* the conversation of the awaited call still starts with the messages it had
\* at the call followed by the user message (it was not cleared or deleted)
Undisturbed(convs, req) ==
  LET c == FindConversation(convs, req.conv) IN
    /\ c # Null
    /\ Len(ValueOf(c).messages) >= Len(req.before) + 1
    /\ SubSeq(ValueOf(c).messages, 1, Len(req.before) + 1) = Append(req.before, req.user)

\* C13: when a sendMessage call returns, its conversation's message list is
\* the list at the call, then the user message, then exactly one assistant
\* message -- for every response, a stream without chunks included.
C13_SendAddsUserAndOneReply ==
  [][(chat_req # Null /\ chat_op' \in ChatCompletionOps
        /\ Undisturbed(conversations, ValueOf(chat_req)))
       => LET req == ValueOf(chat_req)
              after == ValueOf(FindConversation(conversations', req.conv)).messages
          IN /\ Len(after) = Len(req.before) + 2
             /\ SubSeq(after, 1, Len(req.before) + 1) = Append(req.before, req.user)
             /\ after[Len(after)].role = "assistant"]_vars

\* C14: after sendMessage was called with non-empty text, not loading and no
\* conversation active, a conversation is active and its last message is the
\* user message with that text.
C14_SendCreatesConversation ==
  (chat_op = "sendMessage" /\ chat_call # Null
     /\ ValueOf(chat_call).content # "" /\ ~ValueOf(chat_call).loading
     /\ ~ValueOf(chat_call).active)
    => /\ activeConversation # Null
       /\ LET msgs == ValueOf(activeConversation).messages IN
            /\ Len(msgs) > 0
            /\ msgs[Len(msgs)].role = "user"
            /\ msgs[Len(msgs)].content = ValueOf(chat_call).content

\* C15: when the request of a sendMessage call fails (fetch rejects, status not
\* 2xx, reading the stream or the JSON body fails), the step that handles it
\* appends exactly one error-flagged assistant message to the call's
\* conversation, changes no other conversation, and leaves loading and typing
\* false with no call awaited.
C15_FailureAppendsOneError ==
  [][(chat_req # Null /\ chat_op' \in ChatFailureOps)
       => LET req == ValueOf(chat_req) IN
            /\ chat_loading' = FALSE /\ typing' = FALSE /\ chat_req' = Null
            /\ Len(conversations') = Len(conversations)
            /\ \A i \in 1..Len(conversations) :
                 IF conversations[i].id = req.conv
                   THEN /\ Len(conversations'[i].messages)
                             = Len(conversations[i].messages) + 1
                        /\ SubSeq(conversations'[i].messages, 1,
                                  Len(conversations[i].messages))
                             = conversations[i].messages
                        /\ LET m == conversations'[i].messages[Len(conversations'[i].messages)]
                           IN m.role = "assistant" /\ m.error /\ m.content = ErrorText
                   ELSE conversations'[i] = conversations[i]]_vars

\* the stream failed after a chunk: the conversation ends with the error
\* message, and the composer accepts a further send
C15_Witness ==
  /\ chat_op = "streamFailed" /\ ~chat_loading /\ ~typing /\ chat_req = Null
  /\ activeConversation # Null
  /\ LET msgs == ValueOf(activeConversation).messages IN
       /\ Len(msgs) >= 3
       /\ msgs[Len(msgs)].error
       /\ msgs[Len(msgs) - 1].role = "assistant" /\ ~msgs[Len(msgs) - 1].error

\* C16: after a reload and its mount effects, the conversation list and the
\* active id are the ones that were stored before the reload.
C16_ReloadReproduces ==
  (chat_op = "mountEffects" /\ chat_call # Null)
    => LET st == ValueOf(chat_call).stored IN
         /\ st.conversations # Null
         /\ conversations = ConversationsOfJson(ValueOf(st.conversations))
         /\ activeId = st.activeId

\* C17: after the scoring request of AptitudeQuizSection failed (rejected or
\* not 2xx), a result from the local heuristic is stored and the result view
\* is shown.
C17_FallbackOnFailure ==
  sec_op = "submitFailed" =>
    /\ sec_result # Null
    /\ ValueOf(sec_result) = normalizeResult(FALSE)
    /\ ~SecQuizView

\* C20: in both quiz components every key of the AnswerMap is the id of one
\* of the questions, whatever initialAnswers the component was given.
C20_KeysAreQuestionIds ==
  /\ KeysOf(answers) \subseteq QuestionIds
  /\ DOMAIN sec_answers \subseteq QuestionIds

\* the number of times a record is in a list
Count(list, s) == Cardinality({i \in 1..Len(list) : list[i] = s})

\* the record satisfies every criterion that is active: the query (if it is
\* not blank), the category, the eligibility clause and the deadline window
\* (if chosen)
Qualifies(s) ==
  /\ trim(query) # <<>> => MatchesQuery(s, query)
  /\ category # <<>> => s.category = category
  /\ eligibility # <<>> => includes(s.eligibility, eligibility)
  /\ deadlineWindow # "all" => WithinWindow(s, WindowDays(deadlineWindow), filteredAt)

\* C18: the filtered list holds exactly the catalog records that satisfy
\* every active criterion, each as often as the catalog holds it and none that
\* the catalog does not hold; without an amount order it is the catalog's
\* matches in catalog order, with one it is a permutation of them.
C18_FilteredIsTheMatches ==
  /\ \A k \in 1..Len(filtered) :
       Qualifies(filtered[k]) /\ Count(scholarships, filtered[k]) > 0
  /\ \A i \in 1..Len(scholarships) :
       Count(filtered, scholarships[i])
         = IF Qualifies(scholarships[i]) THEN Count(scholarships, scholarships[i]) ELSE 0
  /\ Len(filtered) = Len(SelectSeq(scholarships, Qualifies))
  /\ amountOrder = None => filtered = SelectSeq(scholarships, Qualifies)

\* query, category and eligibility are active, and the amount order has
\* moved records
C18_Witness ==
  /\ trim(query) # <<>> /\ category # <<>> /\ eligibility # <<>>
  /\ amountOrder = "asc"
  /\ Len(filtered) >= 2 /\ Len(filtered) < Len(scholarships)
  /\ filtered # SelectSeq(scholarships, Qualifies)

\* the least integer n with n >= x / d, for x / d within MaxDays
MaxDays == 60
Ceiling(x, d) == CHOOSE n \in (0 - MaxDays)..MaxDays : n * d >= x /\ (n - 1) * d < x

\* no criterion but the deadline window is active
OnlyWindow == trim(query) = <<>> /\ category = <<>> /\ eligibility = <<>>

\* C19: with a deadline window of N days (N in {7, 14, 30}) and no other
\* criterion, a record is kept iff it has a deadline, the deadline parses and
\* ceil((deadline - now) / 1 day) is in [0, N]; of deadlines at +2, +10 and
\* +40 days a window of 14 days keeps exactly the first two.
C19_WindowKeepsDueWithinN ==
  (deadlineWindow # "all" /\ OnlyWindow) =>
    LET N == WindowDays(deadlineWindow) IN
      /\ N \in {7, 14, 30}
      /\ \A i \in 1..Len(scholarships) :
           LET s == scholarships[i] IN
             Count(filtered, s) > 0
               <=> /\ s.deadline # NoDeadline /\ s.deadline # InvalidDeadline
                   /\ Ceiling(s.deadline - filteredAt, HoursPerDay) \in 0..N
      /\ \A i \in 1..Len(scholarships) :
           LET s == scholarships[i] IN
             s.deadline # NoDeadline =>
               (isWithin(s.deadline, N, filteredAt)
                  <=> /\ s.deadline # InvalidDeadline
                      /\ Ceiling(s.deadline - filteredAt, HoursPerDay) \in 0..N)
      /\ (scholarships = CatalogWindow /\ N = 14 /\ filteredAt = NowStart
            /\ amountOrder = None)
           => filtered = <<CatalogWindow[1], CatalogWindow[2]>>

\* the window of 14 days over deadlines at +2, +10 and +40 days, none and an
\* unparsable one
C19_Witness ==
  /\ trk_op = "setDeadlineWindow" /\ deadlineWindow = "14" /\ OnlyWindow
  /\ scholarships = CatalogWindow /\ filteredAt = NowStart
  /\ Len(filtered) = 2
  /\ filtered[1].deadline = NowStart + 2 * HoursPerDay
  /\ filtered[2].deadline = NowStart + 10 * HoursPerDay

\* the answer value contains one of the words, whatever its case
HasKeyword(val, words) == \E w \in words : includes(toLowerCase(val), w)

\* C21: mockEvaluate returns a score for exactly the four streams, each >= 0;
\* every answer adds to exactly one of them: 2 to the first of Science,
\* Commerce, Arts whose keywords its value contains, otherwise 1 to Vocational.
C21_ScoresTallyAnswers ==
  ev_result # Null =>
    LET a == ev_answers
        sc == ValueOf(ev_result).streamScores
        sci == {k \in DOMAIN a : HasKeyword(a[k], ScienceWords)}
        com == {k \in DOMAIN a \ sci : HasKeyword(a[k], CommerceWords)}
        art == {k \in DOMAIN a \ (sci \cup com) : HasKeyword(a[k], ArtsWords)}
        voc == DOMAIN a \ (sci \cup com \cup art)
    IN /\ DOMAIN sc = {"Arts", "Science", "Commerce", "Vocational"}
       /\ \A st \in DOMAIN sc : sc[st] \in Nat
       /\ sc["Science"] = 2 * Cardinality(sci)
       /\ sc["Commerce"] = 2 * Cardinality(com)
       /\ sc["Arts"] = 2 * Cardinality(art)
       /\ sc["Vocational"] = Cardinality(voc)

\* a result for answers with keywords of two streams in one value, a keyword
\* in capitals and a value without keyword
C21_Witness ==
  /\ ev_result # Null
  /\ \E k \in DOMAIN ev_answers :
       HasKeyword(ev_answers[k], CommerceWords) /\ HasKeyword(ev_answers[k], ArtsWords)
  /\ \E k \in DOMAIN ev_answers : ev_answers[k] # toLowerCase(ev_answers[k])
  /\ ValueOf(ev_result).streamScores["Vocational"] = 1
  /\ ValueOf(ev_result).streamScores["Arts"] = 0

\* recommended holds the two streams of highest score, highest first
TopTwoInScoreOrder(res) ==
  LET sc == res.streamScores
      rec == res.recommended
  IN /\ Len(rec) = 2 /\ rec[1] # rec[2]
     /\ {rec[1], rec[2]} \subseteq DOMAIN sc
     /\ sc[rec[1]] >= sc[rec[2]]
     /\ \A st \in DOMAIN sc \ {rec[1], rec[2]} : sc[rec[2]] >= sc[st]

\* C22 as stated: recommended is the two streams of highest score in
\* non-increasing score order, and when every answer carries a Science keyword
\* its first entry is Science.
C22_ScienceFirstWhenAllScience ==
  ev_result # Null =>
    /\ TopTwoInScoreOrder(ValueOf(ev_result))
    /\ (\A k \in DOMAIN ev_answers : HasKeyword(ev_answers[k], ScienceWords))
         => ValueOf(ev_result).recommended[1] = "Science"

\* C22: recommended is the two streams of highest score in non-increasing
\* score order, and when there is at least one answer and every answer carries
\* a Science keyword its first entry is Science; for no answers at all it is
\* Arts, the first key of the buckets.
C22_TopTwoInScoreOrder ==
  ev_result # Null =>
    /\ TopTwoInScoreOrder(ValueOf(ev_result))
    /\ (/\ DOMAIN ev_answers # {}
        /\ \A k \in DOMAIN ev_answers : HasKeyword(ev_answers[k], ScienceWords))
         => ValueOf(ev_result).recommended[1] = "Science"
    /\ DOMAIN ev_answers = {} => ValueOf(ev_result).recommended = <<"Arts", "Science">>

\* every question answered with a Science keyword, one of the values with an
\* Arts keyword as well
C22_Witness ==
  /\ ev_result # Null
  /\ DOMAIN ev_answers = 1..MaxAnswers
  /\ \A k \in DOMAIN ev_answers : HasKeyword(ev_answers[k], ScienceWords)
  /\ \E k \in DOMAIN ev_answers : HasKeyword(ev_answers[k], ArtsWords)
  /\ ValueOf(ev_result).recommended[1] = "Science"

\* the message has the provisional id a streamed draft gets
IsDraft(m) == m.id < 0

\* C23: when no sendMessage call is awaited (loading is false), no message
\* with a draft id is left in any conversation, and the step that ends a
\* stream turns the draft into one message with a permanent id and the same
\* content -- also when the stream failed after some chunks.
C23_NoDraftAtRest ==
  /\ [](chat_req = Null /\ ~chat_loading
          => \A i \in 1..Len(conversations) :
               \A k \in 1..Len(conversations[i].messages) :
                 ~IsDraft(conversations[i].messages[k]))
  /\ [][(chat_req # Null /\ chat_op' \in {"streamDone", "streamFailed"})
         => \A i \in 1..Len(conversations) :
              \A k \in 1..Len(conversations[i].messages) :
                IsDraft(conversations[i].messages[k])
                  => /\ ~IsDraft(conversations'[i].messages[k])
                     /\ conversations'[i].messages[k].content
                          = conversations[i].messages[k].content]_vars

\* the steps of a sendMessage call that write to a conversation after the
\* user message
ChatWriteOps == ChatCompletionOps \cup {"streamChunk"}

\* C24: every write of one send (draft update, finalized reply, error message)
\* goes to the conversation that received the send's user message, also when
\* another conversation was selected or created meanwhile; no other
\* conversation changes.
C24_WritesGoToCallConversation ==
  /\ [][(chat_op' = "sendMessage" /\ chat_req = Null /\ chat_req' # Null)
         => LET req == ValueOf(chat_req')
                c == FindConversation(conversations', req.conv)
            IN /\ c # Null
               /\ ValueOf(c).messages[Len(ValueOf(c).messages)] = req.user
               /\ \A i \in 1..Len(conversations) :
                    conversations[i].id # req.conv
                      => conversations'[i] = conversations[i]]_vars
  /\ [][(chat_req # Null /\ chat_op' \in ChatWriteOps)
         => /\ Len(conversations') = Len(conversations)
            /\ \A i \in 1..Len(conversations) :
                 IF conversations[i].id = ValueOf(chat_req).conv
                   THEN chat_op' # "streamDone"
                          => conversations'[i].messages # conversations[i].messages
                   ELSE conversations'[i] = conversations[i]]_vars

\* a chunk was written to the call's conversation while another one is active
C24_Witness ==
  /\ chat_op = "streamChunk" /\ chat_req # Null
  /\ activeId # ValueOf(chat_req).conv
  /\ LET c == FindConversation(conversations, ValueOf(chat_req).conv) IN
       /\ c # Null
       /\ \E k \in 1..Len(ValueOf(c).messages) :
            /\ ValueOf(c).messages[k] = ValueOf(chat_req).user
            /\ k < Len(ValueOf(c).messages)
            /\ IsDraft(ValueOf(c).messages[Len(ValueOf(c).messages)])

\* C25: with autoSubmitOnTime, after a submission failed (the catch block
\* set phase review) no submission is started by the timer: the quiz rests in
\* review until the user submits again, goes back or jumps to a question.
C25_NoResubmitAfterFailure ==
  [][(autoSubmitOnTime /\ qOp = "submitRejected")
       => (qOp' # "timeUpSubmit" /\ (phase' = "submitting" => qOp' = "handleSubmit"))]_vars

\* C26: with allowSkip = false, the answers handed to the scoring call of
\* every submission, started by the user or by the timer, hold an answer for
\* every question.
C26_SubmissionsAreComplete ==
  (~allowSkip /\ phase = "submitting" /\ inflight # Null)
    => \A q \in QuestionIds : Answered(ValueOf(inflight), q)

\* C27: on load, an entry that is missing or does not parse gives the empty
\* default for its own key only: the other entry, if it is there and parses,
\* is loaded and is still in storage afterwards -- in particular the tracked
\* map with a corrupt saved-ids entry.
C27_DamagedEntryAffectsItsKeyOnly ==
  [][\A sk \in EntryKinds, tk \in EntryKinds :
       (<<sk, tk>> # <<"valid", "valid">> /\ trk_op' = LoadOp(sk, tk))
         => /\ savedIds' = (IF sk = "valid" THEN SavedOfJson(storage.saved) ELSE {})
            /\ tracked' = (IF tk = "valid" THEN TrackedOfJson(storage.tracked)
                           ELSE NoTracked)
            /\ tk = "valid" => storage'.tracked = storage.tracked
            /\ sk = "valid" => storage'.saved = storage.saved]_vars

C29_CatalogIsReadOnly ==
  /\ [](rec_items = rec_given)
  /\ [][trk_op' \in {"setQuery", "setCategory", "setEligibility", "setAmountOrder",
                     "setDeadlineWindow"}
         => scholarships' = scholarships]_vars

\* C30: in AptitudeQuizSection every question before the cursor has an
\* answer, and the payload of every request to the scoring endpoint holds an
\* answer for every question.
C30_AnsweredBelowCursor ==
  /\ \A k \in 0..(sec_current - 1) : sec_answers[QuestionId(k)] # None
  /\ sec_payload # Null => \A q \in QuestionIds : ValueOf(sec_payload)[q] # None

\* a request is awaited whose answers were given after going back and
\* choosing again
C30_Witness ==
  /\ sec_op = "handleSubmit" /\ sec_payload # Null /\ sec_submitting
  /\ sec_current = total - 1 /\ total > 1
  /\ \E q \in QuestionIds : ValueOf(sec_payload)[q] # ValueOf(sec_payload)[QuestionId(0)]

====
